---- MODULE Spec2Model ----
(***************************************************************************)
(* MCP connectivity probing and capability discovery (my-mcp-manager).     *)
(*                                                                         *)
(*   checkMcpServers / getMcpCapabilitiesBatch : the batch scheduler       *)
(*   checkMcpServer                            : the reachability probe    *)
(*   getMcpCapabilities                        : the capability discovery  *)
(*                                                                         *)
(* Strings the code inspects or builds (error messages, candidate names)   *)
(* are sequences of one-character strings, so that toLowerCase, includes,  *)
(* template literals and join are computed as the code computes them.      *)
(* Server ids are only ever used as object keys and stay TLA+ strings.     *)
(***************************************************************************)
EXTENDS Integers, Sequences, FiniteSets, TLC

(***************************************************************************)
(* Bounds of the model.                                                    *)
(***************************************************************************)
MaxIds == 3           \* longest id list handed to a batch
MaxConcurrency == 3   \* largest options.concurrency handed to a batch
MaxTotalMs == 1300    \* largest totalMs handed to splitTimeout on its own
MaxParts == 4         \* largest number of parts handed to splitTimeout on its own
MaxChunks == 52       \* most stderr data events delivered during one call

(***************************************************************************)
(* Small helpers.                                                          *)
(***************************************************************************)
Max(a, b) == IF a >= b THEN a ELSE b
Min(a, b) == IF a <= b THEN a ELSE b
Range(s) == {s[i] : i \in DOMAIN s}
SeqsUpTo(S, n) == UNION {[1..k -> S] : k \in 0..n}

None == "null"        \* JavaScript null / undefined

(***************************************************************************)
(* String literals of the source.                                          *)
(***************************************************************************)
McpNotFound == <<"M","C","P"," ","n","o","t"," ","f","o","u","n","d">>
MissingCommandOrUrl == <<"M","i","s","s","i","n","g"," ","c","o","m","m","a","n","d"," ","o","r"," ","u","r","l">>
Unavailable == <<"U","n","a","v","a","i","l","a","b","l","e">>

NameWebsocket == <<"w","e","b","s","o","c","k","e","t">>
NameStreamable == <<"s","t","r","e","a","m","a","b","l","e","-","h","t","t","p">>
NameLegacySse == <<"l","e","g","a","c","y","-","s","s","e">>
ConnectTimeoutUrl == <<":"," ","c","o","n","n","e","c","t"," ","t","i","m","e","o","u","t">>      \* `${attempt.name}: connect timeout`
PingTimeoutUrl == <<":"," ","p","i","n","g"," ","t","i","m","e","o","u","t">>            \* `${attempt.name}: ping timeout`
ConnectTimeout == <<"C","o","n","n","e","c","t"," ","t","i","m","e","o","u","t">>
PingTimeout == <<"P","i","n","g"," ","t","i","m","e","o","u","t">>
ListToolsTimeout == <<"L","i","s","t","T","o","o","l","s"," ","t","i","m","e","o","u","t">>
ListResourcesTimeout == <<"L","i","s","t","R","e","s","o","u","r","c","e","s"," ","t","i","m","e","o","u","t">>
ListPromptsTimeout == <<"L","i","s","t","P","r","o","m","p","t","s"," ","t","i","m","e","o","u","t">>
InvalidUrlMessage == <<"I","n","v","a","l","i","d"," ","U","R","L">>
ColonSpace == <<":"," ">>
BarSeparator == <<" ","|"," ">>
PatMethodNotFound == <<"m","e","t","h","o","d"," ","n","o","t"," ","f","o","u","n","d">>
PatUnknownMethod == <<"u","n","k","n","o","w","n"," ","m","e","t","h","o","d">>
PatNotImplemented == <<"n","o","t"," ","i","m","p","l","e","m","e","n","t","e","d">>
Pat32601 == <<"-","3","2","6","0","1">>
PatSse == <<"s","s","e">>
PatSlashSse == <<"/","s","s","e">>
TypeSse == <<"s","s","e">>
TypeStreamableHttp == <<"s","t","r","e","a","m","a","b","l","e","-","h","t","t","p">>
TypeHttp == <<"h","t","t","p">>

(***************************************************************************)
(* String operations of JavaScript on sequences of characters.             *)
(***************************************************************************)
UpperCaseLetters == <<"A","B","C","D","E","F","G","H","I","J","K","L","M","N","O","P","Q","R","S","T","U","V","W","X","Y","Z">>
LowerCaseLetters == <<"a","b","c","d","e","f","g","h","i","j","k","l","m","n","o","p","q","r","s","t","u","v","w","x","y","z">>

toLowerCaseChar(c) ==
  IF \E k \in DOMAIN UpperCaseLetters : UpperCaseLetters[k] = c
  THEN LowerCaseLetters[CHOOSE k \in DOMAIN UpperCaseLetters : UpperCaseLetters[k] = c]
  ELSE c

\* String.prototype.toLowerCase
toLowerCase(str) == [k \in DOMAIN str |-> toLowerCaseChar(str[k])]

\* String.prototype.includes
includes(str, pat) ==
  \E k \in 1..(Len(str) - Len(pat) + 1) : SubSeq(str, k, k + Len(pat) - 1) = pat

\* String.prototype.endsWith
endsWith(str, pat) ==
  Len(str) >= Len(pat) /\ SubSeq(str, Len(str) - Len(pat) + 1, Len(str)) = pat

\* Array.prototype.join
RECURSIVE join(_, _)
join(list, sep) ==
  IF Len(list) = 0 THEN <<>>
  ELSE IF Len(list) = 1 THEN list[1]
  ELSE list[1] \o sep \o join(Tail(list), sep)

VARIABLES
  \* ---- one engine call (checkMcpServer / getMcpCapabilities)
  eng,          \* its parameters, local variables, position and history
  \* ---- batch scheduler (checkMcpServers / getMcpCapabilitiesBatch)
  servers,      \* own keys of the descriptor map `servers`
  ids,          \* the id list handed to the batch
  options,      \* [timeoutMs, concurrency]
  queue,        \* const queue = [...ids]
  results,      \* const results = {}: own entries id -> outcome
  workers,      \* one record per worker: [st, id]
  active,       \* the worker whose code is running (0: none, the event loop is idle)
  batchPc,      \* "running" | "returned" | "rejected"
  pops,         \* history: <<position in ids, worker>> of every queue.shift()
  engineCalls,  \* history: [id, timeoutMs, worker] of every engine invocation
  \* ---- REST layer and configuration service
  http,         \* one POST /check or POST /capabilities request and its response
  store         \* ConfigService: the files, its operation queues and the calls in flight

batchVars == <<servers, ids, options, queue, results, workers, active, batchPc, pops, engineCalls>>
restVars == <<http, store>>
vars == <<batchVars, eng, restVars>>

(***************************************************************************)
(* The two engines: checkMcpServer (mode "check") and getMcpCapabilities   *)
(* (mode "capabilities").  One call is one sequential async function; the  *)
(* record `eng` holds its parameters, its local variables and its position.*)
(* Each action is the code that runs from one await to the next.           *)
(***************************************************************************)

\* Program constants of splitTimeout and of the attempt budgets.
TotalFloorMs == 500
PartFloorMs == 250

\* ---- inputs
\* config.url: unset, not parseable by `new URL`, or parsed.
UrlUnset == [set |-> FALSE, valid |-> FALSE, protocol |-> "", pathname |-> <<>>]
UrlInvalid == [set |-> TRUE, valid |-> FALSE, protocol |-> "", pathname |-> <<>>]
Url(protocol, pathname) == [set |-> TRUE, valid |-> TRUE, protocol |-> protocol, pathname |-> pathname]
PathMcp == <<"/","m","c","p">>
PathSseUpper == <<"/","S","S","E">>
PathRoot == <<"/">>

\* [url, command (set or not), type (the empty string when absent)]
Configs ==
  { [url |-> UrlUnset, command |-> FALSE, type |-> <<>>],
    [url |-> UrlUnset, command |-> TRUE, type |-> <<>>],
    [url |-> UrlInvalid, command |-> FALSE, type |-> <<>>],
    [url |-> Url("ws:", PathRoot), command |-> FALSE, type |-> <<>>],
    [url |-> Url("wss:", PathSseUpper), command |-> TRUE, type |-> TypeSse],
    [url |-> Url("https:", PathMcp), command |-> FALSE, type |-> <<>>],
    [url |-> Url("https:", PathMcp), command |-> FALSE, type |-> <<"S","S","E">>],
    [url |-> Url("http:", PathSseUpper), command |-> FALSE, type |-> <<>>],
    [url |-> Url("http:", PathSseUpper), command |-> FALSE, type |-> <<"h","t","t","p">>] }

EngineTimeouts == {500, 1000, 6000}

\* Error messages a server (or the transport) can fail a request with.
ServerErrors ==
  { <<"M","C","P"," ","e","r","r","o","r"," ","-","3","2","6","0","1">>,   \* "MCP error -32601"
    <<"N","O","T"," ","I","M","P","L","E","M","E","N","T","E","D">>,   \* "NOT IMPLEMENTED"
    <<"U","n","k","n","o","w","n","-","m","e","t","h","o","d">>,   \* "Unknown-method"
    <<"E","C","O","N","N","R","E","F","U","S","E","D">> }  \* "ECONNREFUSED"

\* What the server answers to tools/list, resources/list, prompts/list.
ToolsResponse == <<[name |-> "echo", description |-> "d"], [name |-> "", description |-> "d"]>>
ResourcesResponse == <<"resource">>
PromptsResponse == <<"prompt">>

\* withTimeout(promise, timeoutMs, timeoutMessage): the promise's own outcome,
\* or a rejection with timeoutMessage when the timer fires first.
withTimeout(timeoutMessage) ==
  {[ok |-> TRUE, message |-> <<>>]}
    \cup {[ok |-> FALSE, message |-> m] : m \in ServerErrors \cup {timeoutMessage}}

isMethodMissingError(message) ==
  LET m == toLowerCase(message)
  IN  \/ includes(m, PatMethodNotFound)
      \/ includes(m, PatUnknownMethod)
      \/ includes(m, PatNotImplemented)
      \/ includes(m, Pat32601)

splitTimeout_AsNoRemainder(totalMs, parts) ==
  LET clamped == Max(TotalFloorMs, totalMs)
      p == Max(1, parts)
  IN  [k \in 1..p |-> Max(PartFloorMs, clamped \div p)]
splitTimeout(totalMs, parts) ==
  LET clamped == Max(TotalFloorMs, totalMs)
      p == Max(1, parts)
      base == Max(PartFloorMs, clamped \div p)
      out == [k \in 1..p |-> IF k = 1 THEN base + (clamped - base * p) ELSE base]
  IN  [k \in 1..p |-> Max(PartFloorMs, out[k])]

\* Math.floor(options.timeoutMs * 0.6) on an integer number of milliseconds
floor60(ms) == (ms * 3) \div 5

attemptTimeoutsFor_AsEvenSplit(n, ms) ==
  IF n = 1 THEN <<ms>>
  ELSE <<Max(TotalFloorMs, ms \div 2), Max(TotalFloorMs, ms - (ms \div 2))>>
attemptTimeoutsFor_AsAlwaysSplit(n, ms) ==
  <<Max(TotalFloorMs, floor60(ms)), Max(TotalFloorMs, ms - floor60(ms))>>
attemptTimeoutsFor(n, ms) ==
  IF n = 1 THEN <<ms>>
  ELSE <<Max(TotalFloorMs, floor60(ms)), Max(TotalFloorMs, ms - floor60(ms))>>

\* The transport candidates of a URL descriptor, in the order they are tried.
resolveAttempts_AsPathWins(cfg) ==
  IF cfg.url.protocol = "ws:" \/ cfg.url.protocol = "wss:"
  THEN <<NameWebsocket>>
  ELSE LET cfgType == toLowerCase(cfg.type)
           pathname == toLowerCase(cfg.url.pathname)
           preferLegacySse == \/ cfgType = TypeSse
                              \/ endsWith(pathname, PatSlashSse)
                              \/ includes(pathname, PatSse)
       IN  IF preferLegacySse
           THEN <<NameLegacySse, NameStreamable>>
           ELSE <<NameStreamable, NameLegacySse>>
resolveAttempts(cfg) ==
  IF cfg.url.protocol = "ws:" \/ cfg.url.protocol = "wss:"
  THEN <<NameWebsocket>>
  ELSE LET cfgType == toLowerCase(cfg.type)
           pathname == toLowerCase(cfg.url.pathname)
           preferLegacySse == \/ cfgType = TypeSse
                              \/ endsWith(pathname, PatSlashSse)
                              \/ includes(pathname, PatSse)
           preferStreamable == cfgType = TypeStreamableHttp \/ cfgType = TypeHttp
       IN  IF preferLegacySse /\ ~preferStreamable
           THEN <<NameLegacySse, NameStreamable>>
           ELSE <<NameStreamable, NameLegacySse>>

\* ---- outcomes (wall-clock latency is not modelled)
NoResult == [kind |-> "none"]
Rejected == [kind |-> "rejected"]
Ok == [kind |-> "ok", ok |-> TRUE]
OkCapabilities(capabilities, supported) ==
  [kind |-> "ok", ok |-> TRUE, capabilities |-> capabilities, supported |-> supported]
Fail(error) == [kind |-> "fail", ok |-> FALSE, error |-> error]

\* ---- history of the protocol requests of the call
Issue(e, method) ==
  Append(e.rpc, [attempt |-> e.i, method |-> method, status |-> "pending", message |-> <<>>])
Settle(e, o) ==
  [e.rpc EXCEPT ![Len(e.rpc)] =
     [@ EXCEPT !.status = IF o.ok THEN "ok" ELSE "error", !.message = o.message]]
Settled(e, o) == [e EXCEPT !.rpc = Settle(e, o)]

IdleBatch ==
  /\ servers = {}
  /\ ids = <<>>
  /\ options = [timeoutMs |-> 0, concurrency |-> 0]
  /\ queue = <<>>
  /\ results = <<>>
  /\ workers = <<>>
  /\ active = 0
  /\ batchPc = "idle"
  /\ pops = <<>>
  /\ engineCalls = <<>>

\* No request is being served and no configuration operation is running.
IdleRest ==
  /\ http = [pc |-> "idle"]
  /\ store = [pc |-> "idle"]

\* ---- the diagnostic (stderr) stream of a local process
\* Program constants of the capture and of the failure message.
StderrCapacity == 50
StderrTailChars == 2000

\* What the process writes: nothing ("silent"), or chunk after chunk of one
\* of three shapes; "none" is a transport that exposes no stderr stream.
\* The text is ASCII, one character per byte.
Digit(k) == <<"0","1","2","3","4","5","6","7","8","9">>[(k % 10) + 1]
LongChunkChars == 41
StderrChunk(stream, k) ==
  CASE stream = "blank" -> <<"\n">>
    [] stream = "lines" -> <<" ", "E", Digit(k), "\n">>
    [] OTHER -> [c \in 1..LongChunkChars |->
                   IF c = 1 THEN Digit(k) ELSE IF c = LongChunkChars THEN "\n" ELSE "x"]
StderrStreams == {"none", "blank", "lines", "long"}

StderrSeparator == <<" ","|"," ","s","t","d","e","r","r",":"," ">>
WhiteSpace == {" ", "\n", "\t", "\r"}

\* stderrChunks.push(Buffer.from(chunk)); if (stderrChunks.length > 50) stderrChunks.shift();
pushChunk_AsDropNewest(chunks, chunk) ==
  IF Len(chunks) + 1 > StderrCapacity THEN chunks ELSE Append(chunks, chunk)
pushChunk(chunks, chunk) ==
  LET pushed == Append(chunks, chunk)
  IN  IF Len(pushed) > StderrCapacity THEN Tail(pushed) ELSE pushed

\* Buffer.concat(stderrChunks).toString('utf8')
RECURSIVE concat(_)
concat(chunks) == IF chunks = <<>> THEN <<>> ELSE Head(chunks) \o concat(Tail(chunks))

\* String.prototype.trim
RECURSIVE firstKept(_, _)
firstKept(text, k) ==
  IF k > Len(text) \/ text[k] \notin WhiteSpace THEN k ELSE firstKept(text, k + 1)
RECURSIVE lastKept(_, _)
lastKept(text, k) ==
  IF k < 1 \/ text[k] \notin WhiteSpace THEN k ELSE lastKept(text, k - 1)
trim(text) == SubSeq(text, firstKept(text, 1), lastKept(text, Len(text)))

tailText(text, maxChars) ==
  IF Len(text) <= maxChars THEN text
  ELSE SubSeq(text, Len(text) - maxChars + 1, Len(text))

\* The error of the outer catch: `${error} | stderr: ${tailText(stderrText, 2000)}`
\* when the trimmed stderr text is not empty.
withStderr_AsUntrimmed(error, chunks) ==
  IF Len(concat(chunks)) > 0
  THEN error \o StderrSeparator \o tailText(concat(chunks), StderrTailChars)
  ELSE error
withStderr(error, chunks) ==
  LET stderrText == IF Len(chunks) > 0 THEN trim(concat(chunks)) ELSE <<>>
  IN  IF Len(stderrText) > 0
      THEN error \o StderrSeparator \o tailText(stderrText, StderrTailChars)
      ELSE error

\* The state of one call at its entry.
EngineCall(m, c, ms, stream) ==
  [mode |-> m, config |-> c, timeoutMs |-> ms, pc |-> "start",
   attempts |-> <<>>, attemptTimeouts |-> <<>>, i |-> 0,
   client |-> 0, transport |-> 0, handles |-> <<>>,
   errors |-> <<>>, result |-> NoResult, returned |-> NoResult,
   supported |-> [tools |-> TRUE, resources |-> TRUE, prompts |-> TRUE],
   capabilities |-> [tools |-> <<>>, resources |-> <<>>, prompts |-> <<>>],
   listMs |-> <<>>, liveMs |-> 0, inFinally |-> FALSE,
   armed |-> <<>>, rpc |-> <<>>, closeThrew |-> FALSE,
   stream |-> stream, stderrAttached |-> FALSE, stderrChunks |-> <<>>, received |-> 0]

\* Calls on servers that write nothing to stderr.
InitEngine ==
  /\ IdleBatch
  /\ IdleRest
  /\ eng \in { EngineCall(m, c, ms, "silent")
               : m \in {"check", "capabilities"}, c \in Configs, ms \in EngineTimeouts }

UrlPath(e) == e.config.url.set

\* transport = attempt.make(); client = new Client(...); the connect of
\* candidate k is started under the first half of the candidate's budget.
openAttempt(e, k) ==
  LET ms == splitTimeout(e.attemptTimeouts[k], 2)
      e1 == [e EXCEPT !.i = k,
                      !.handles = e.handles \o
                         << [kind |-> "transport", attempt |-> k, closed |-> FALSE],
                            [kind |-> "client", attempt |-> k, closed |-> FALSE] >>,
                      !.transport = Len(e.handles) + 1,
                      !.client = Len(e.handles) + 2,
                      !.liveMs = ms[2],
                      !.armed = Append(e.armed, ms[1]),
                      !.pc = "connect"]
  IN  [e1 EXCEPT !.rpc = Issue(e1, "connect")]

\* transport = await buildTransport(config); client = new Client(...) of a
\* local-process descriptor.  checkMcpServer gives connect the whole
\* options.timeoutMs, getMcpCapabilities the first half of it.
openStdio(e) ==
  LET ms == IF e.mode = "check" THEN <<e.timeoutMs, e.timeoutMs>>
            ELSE splitTimeout(e.timeoutMs, 2)
      e1 == [e EXCEPT !.i = 1,
                      !.handles = << [kind |-> "transport", attempt |-> 1, closed |-> FALSE],
                                     [kind |-> "client", attempt |-> 1, closed |-> FALSE] >>,
                      !.transport = 1,
                      !.client = 2,
                      !.liveMs = ms[2],
                      !.armed = Append(e.armed, ms[1]),
                      !.stderrAttached = (e.stream /= "none"),
                      !.pc = "connect"]
  IN  [e1 EXCEPT !.rpc = Issue(e1, "connect")]

\* The outer catch: the error becomes the Fail outcome; then the finally block.
outerCatch_AsRethrow(e, message) ==
  [e EXCEPT !.returned = Rejected, !.pc = "done"]
outerCatch(e, message) ==
  [e EXCEPT !.result = Fail(withStderr(message, e.stderrChunks)),
            !.pc = "closeClient", !.inFinally = TRUE]

\* A candidate of a URL descriptor failed: catch (e) { errors.push(...); await cleanup(); }
\* For a local-process descriptor the error reaches the outer catch.
attemptFailed_AsNoName(e, message) ==
  IF UrlPath(e)
  THEN [e EXCEPT !.errors = Append(e.errors, message),
                 !.pc = "closeClient", !.inFinally = FALSE]
  ELSE outerCatch(e, message)
attemptFailed(e, message) ==
  IF UrlPath(e)
  THEN [e EXCEPT !.errors = Append(e.errors, e.attempts[e.i] \o ColonSpace \o message),
                 !.pc = "closeClient", !.inFinally = FALSE]
  ELSE outerCatch(e, message)

\* return { ok: true, ... } inside the try: the finally block runs before the caller sees it.
succeed_AsContinue(e, outcome) ==
  [e EXCEPT !.result = outcome, !.pc = "closeClient", !.inFinally = FALSE]
succeed(e, outcome) ==
  [e EXCEPT !.result = outcome, !.pc = "closeClient", !.inFinally = TRUE]

\* buildTransport of a descriptor without url: if (!config.command) throw ...
buildTransportThrows_AsNoCheck(cfg) == FALSE
buildTransportThrows(cfg) == ~cfg.command

\* The code of checkMcpServer / getMcpCapabilities up to its first await.
EngineStart ==
  /\ UNCHANGED <<batchVars, restVars>>
  /\ eng.pc = "start"
  /\ eng' =
       IF UrlPath(eng)
       THEN IF ~eng.config.url.valid                  \* new URL(config.url) throws
            THEN outerCatch(eng, InvalidUrlMessage)
            ELSE LET attempts == resolveAttempts(eng.config)
                 IN  openAttempt([eng EXCEPT !.attempts = attempts,
                                             !.attemptTimeouts =
                                                attemptTimeoutsFor(Len(attempts), eng.timeoutMs)], 1)
       ELSE IF buildTransportThrows(eng.config)
            THEN outerCatch(eng, MissingCommandOrUrl)
            ELSE openStdio(eng)

connectTimeoutMessage(e) ==
  IF UrlPath(e) THEN e.attempts[e.i] \o ConnectTimeoutUrl ELSE ConnectTimeout
pingTimeoutMessage(e) ==
  IF UrlPath(e) THEN e.attempts[e.i] \o PingTimeoutUrl ELSE PingTimeout

\* discover(totalMs) up to its first await: the three-way split and tools/list.
startDiscover(e) ==
  LET ms == splitTimeout(e.liveMs, 3)
      e1 == [e EXCEPT !.listMs = ms,
                      !.capabilities = [tools |-> <<>>, resources |-> <<>>, prompts |-> <<>>],
                      !.supported = [tools |-> TRUE, resources |-> TRUE, prompts |-> TRUE],
                      !.armed = Append(e.armed, ms[1]),
                      !.pc = "tools"]
  IN  [e1 EXCEPT !.rpc = Issue(e1, "listTools")]

\* await withTimeout(client.connect(transport), ...) settles.
ConnectSettle ==
  /\ UNCHANGED <<batchVars, restVars>>
  /\ eng.pc = "connect"
  /\ \E o \in withTimeout(connectTimeoutMessage(eng)) :
       LET e == Settled(eng, o)
       IN  eng' =
             IF ~o.ok THEN attemptFailed(e, o.message)
             ELSE IF e.mode = "check"
             THEN LET e1 == [e EXCEPT !.armed = Append(e.armed, e.liveMs), !.pc = "ping"]
                  IN  [e1 EXCEPT !.rpc = Issue(e1, "ping")]
             ELSE startDiscover(e)

\* The ping of a probe failed or timed out.  Only the local-process branch
\* wraps the ping in a try/catch that falls back to listTools.
pingFailed_AsIgnored(e, message) == succeed(e, Ok)
pingFailed(e, message) ==
  IF UrlPath(e) THEN attemptFailed(e, message)
  ELSE IF isMethodMissingError(message)
  THEN LET e1 == [e EXCEPT !.armed = Append(e.armed, e.timeoutMs), !.pc = "listTools"]
       IN  [e1 EXCEPT !.rpc = Issue(e1, "listTools")]
  ELSE outerCatch(e, message)

\* await withTimeout(client.ping(), ...) settles.
PingSettle ==
  /\ UNCHANGED <<batchVars, restVars>>
  /\ eng.pc = "ping"
  /\ \E o \in withTimeout(pingTimeoutMessage(eng)) :
       LET e == Settled(eng, o)
       IN  eng' = IF o.ok THEN succeed(e, Ok) ELSE pingFailed(e, o.message)

\* await withTimeout(client.listTools(), options.timeoutMs, 'ListTools timeout')
\* of the ping fallback settles.
ListToolsFallbackSettle ==
  /\ UNCHANGED <<batchVars, restVars>>
  /\ eng.pc = "listTools"
  /\ \E o \in withTimeout(ListToolsTimeout) :
       LET e == Settled(eng, o)
       IN  eng' = IF o.ok THEN succeed(e, Ok) ELSE outerCatch(e, o.message)

\* catch (e) { if (isMethodMissingError(msg)) supported.x = false; else throw e; }
onListError_AsAlwaysThrow(message) == "throw"
onListError_AsNeverThrow(message) == "unsupported"
onListError(message) ==
  IF isMethodMissingError(message) THEN "unsupported" ELSE "throw"

\* capabilities.tools = list.map(...).filter(t => t.name)
normalizeTools(list) == SelectSeq(list, LAMBDA tool : tool.name /= "")

\* tools/list settles; resources/list is started unless the error is rethrown.
ToolsSettle ==
  /\ UNCHANGED <<batchVars, restVars>>
  /\ eng.pc = "tools"
  /\ \E o \in withTimeout(ListToolsTimeout) :
       LET e == Settled(eng, o)
           next(e0) == LET e1 == [e0 EXCEPT !.armed = Append(e0.armed, e0.listMs[2]),
                                           !.pc = "resources"]
                       IN  [e1 EXCEPT !.rpc = Issue(e1, "listResources")]
       IN  eng' =
             IF o.ok
             THEN next([e EXCEPT !.capabilities.tools = normalizeTools(ToolsResponse)])
             ELSE IF onListError(o.message) = "unsupported"
             THEN next([e EXCEPT !.supported.tools = FALSE])
             ELSE attemptFailed(e, o.message)

\* resources/list settles; prompts/list is started unless the error is rethrown.
ResourcesSettle ==
  /\ UNCHANGED <<batchVars, restVars>>
  /\ eng.pc = "resources"
  /\ \E o \in withTimeout(ListResourcesTimeout) :
       LET e == Settled(eng, o)
           next(e0) == LET e1 == [e0 EXCEPT !.armed = Append(e0.armed, e0.listMs[3]),
                                           !.pc = "prompts"]
                       IN  [e1 EXCEPT !.rpc = Issue(e1, "listPrompts")]
       IN  eng' =
             IF o.ok
             THEN next([e EXCEPT !.capabilities.resources = ResourcesResponse])
             ELSE IF onListError(o.message) = "unsupported"
             THEN next([e EXCEPT !.supported.resources = FALSE])
             ELSE attemptFailed(e, o.message)

\* prompts/list settles; discover returns { capabilities, supported }.
PromptsSettle ==
  /\ UNCHANGED <<batchVars, restVars>>
  /\ eng.pc = "prompts"
  /\ \E o \in withTimeout(ListPromptsTimeout) :
       LET e == Settled(eng, o)
           done(e0) == succeed(e0, OkCapabilities(e0.capabilities, e0.supported))
       IN  eng' =
             IF o.ok
             THEN done([e EXCEPT !.capabilities.prompts = PromptsResponse])
             ELSE IF onListError(o.message) = "unsupported"
             THEN done([e EXCEPT !.supported.prompts = FALSE])
             ELSE attemptFailed(e, o.message)

\* try { await x?.close(); } catch { /* ignore */ }: whether a close that
\* throws ends the function.
closeFailurePropagates_AsRethrow(threw) == threw
closeFailurePropagates(threw) == FALSE

markClosed(e, h) == [e EXCEPT !.handles[h].closed = TRUE]

\* await client?.close(), in cleanup() and in the finally block.
CloseClient ==
  /\ UNCHANGED <<batchVars, restVars>>
  /\ eng.pc = "closeClient"
  /\ \E threw \in BOOLEAN :
       /\ eng.client = 0 => ~threw
       /\ eng' =
            IF eng.client = 0 THEN [eng EXCEPT !.pc = "closeTransport"]
            ELSE LET e == [markClosed(eng, eng.client) EXCEPT !.closeThrew = @ \/ threw]
                 IN  IF closeFailurePropagates(threw)
                     THEN [e EXCEPT !.pc = "done", !.returned = Rejected]
                     ELSE [e EXCEPT !.pc = "closeTransport"]

\* await transport?.close(); after cleanup() in the candidate loop the next
\* candidate is opened, or the loop ends with the aggregated Fail.
CloseTransport ==
  /\ UNCHANGED <<batchVars, restVars>>
  /\ eng.pc = "closeTransport"
  /\ \E threw \in BOOLEAN :
       /\ eng.transport = 0 => ~threw
       /\ LET e == IF eng.transport = 0 THEN eng
                   ELSE [markClosed(eng, eng.transport) EXCEPT !.closeThrew = @ \/ threw]
          IN  eng' =
                IF eng.transport /= 0 /\ closeFailurePropagates(threw)
                THEN [e EXCEPT !.pc = "done", !.returned = Rejected]
                ELSE IF e.inFinally
                THEN [e EXCEPT !.pc = "return"]
                ELSE LET e1 == [e EXCEPT !.client = 0, !.transport = 0]
                     IN  IF e1.i < Len(e1.attempts)
                         THEN openAttempt(e1, e1.i + 1)
                         ELSE [e1 EXCEPT
                                 !.result = Fail(IF Len(join(e1.errors, BarSeparator)) > 0
                                                 THEN join(e1.errors, BarSeparator)
                                                 ELSE Unavailable),
                                 !.pc = "closeClient", !.inFinally = TRUE]

\* The promise of the call resolves with the outcome computed before the finally block.
EngineReturn ==
  /\ UNCHANGED <<batchVars, restVars>>
  /\ eng.pc = "return"
  /\ eng' = [eng EXCEPT !.pc = "done", !.returned = eng.result]


(***************************************************************************)
(* Inputs of a batch.  The REST layer keeps every element of `ids` that is *)
(* a string (mcp.routes.ts:81-83): the empty string, ids that are no key   *)
(* of the map, names inherited from Object.prototype and repeated ids all  *)
(* reach the scheduler.                                                    *)
(***************************************************************************)
Ids == {"", "a", "b", "constructor"}
OwnKeys == {"a", "b"}
ObjectPrototypeKeys == {"constructor"}
BatchTimeouts == {500, 6000}

\* servers[id]: an own property, else what the prototype chain of a plain
\* object gives (a function, truthy), else undefined.
serversGet(id) ==
  IF id \in servers THEN "config"
  ELSE IF id \in ObjectPrototypeKeys THEN "inherited"
  ELSE None

\* The outcomes an engine call can resolve with.  A value that is no server
\* entry has neither url nor command, and both engines answer that with a Fail.
OkOutcome == [ok |-> TRUE, latencyMs |-> 1]
FailOutcome(error) == [ok |-> FALSE, latencyMs |-> 1, error |-> error]
NotFoundOutcome == [ok |-> FALSE, latencyMs |-> 0, error |-> McpNotFound]
EngineOutcomes(config) ==
  IF config = "inherited" THEN {FailOutcome(MissingCommandOrUrl)}
  ELSE {OkOutcome, FailOutcome(Unavailable)}

\* results[id] = outcome
Put(res, id, outcome) ==
  [x \in (DOMAIN res) \cup {id} |-> IF x = id THEN outcome ELSE res[x]]

\* Array.from({ length: Math.max(1, options.concurrency) }, ...)
NumWorkers_AsOnePerId(opts, idList) == Max(1, Len(idList))
NumWorkers(opts, idList) == Max(1, opts.concurrency)

\* State on entry of checkMcpServers / getMcpCapabilitiesBatch, after
\* `results = {}` and `queue = [...ids]`; no worker has run yet.
Init ==
  /\ servers \in SUBSET OwnKeys
  /\ ids \in SeqsUpTo(Ids, MaxIds)
  /\ options \in [timeoutMs : BatchTimeouts, concurrency : 0..MaxConcurrency]
  /\ queue = ids
  /\ results = <<>>
  /\ workers = [k \in 1..NumWorkers(options, ids) |-> [st |-> "new", id |-> None]]
  /\ active = 0
  /\ batchPc = "running"
  /\ pops = <<>>
  /\ engineCalls = <<>>
  /\ eng = [pc |-> "idle"]
  /\ IdleRest

\* The options of every engine call: { timeoutMs: options.timeoutMs }
engineOptions_AsSharedBudget(opts, idList) ==
  [timeoutMs |-> opts.timeoutMs \div Max(1, Len(idList))]
engineOptions(opts, idList) == [timeoutMs |-> opts.timeoutMs]

Unspawned == {w \in DOMAIN workers : workers[w].st = "new"}

\* Array.from calls the async worker function for the next index; it runs
\* until its first await (or its end) before the next one is called.
SpawnWorker(w) ==
  /\ active = 0
  /\ w \in Unspawned
  /\ \A v \in Unspawned : w <= v
  /\ active' = w
  /\ workers' = [workers EXCEPT ![w].st = "run"]
  /\ UNCHANGED <<servers, ids, options, queue, results, batchPc, pops, engineCalls, eng, restVars>>

\* One evaluation of `while (queue.length > 0) { ... }` by the running worker.
\* JavaScript runs a worker without interleaving until it awaits or ends.
WorkerIterate(w) ==
  /\ active = w
  /\ IF Len(queue) = 0                               \* while (queue.length > 0)
     THEN /\ workers' = [workers EXCEPT ![w] = [st |-> "done", id |-> None]]
          /\ active' = 0
          /\ UNCHANGED <<queue, results, pops, engineCalls>>
     ELSE LET id == Head(queue)                      \* const id = queue.shift();
              pos == Len(ids) - Len(queue) + 1
          IN  /\ queue' = Tail(queue)
              /\ pops' = Append(pops, <<pos, w>>)
              /\ IF id = ""                          \* if (!id) return;
                 THEN /\ workers' = [workers EXCEPT ![w] = [st |-> "done", id |-> None]]
                      /\ active' = 0
                      /\ UNCHANGED <<results, engineCalls>>
                 ELSE IF serversGet(id) = None       \* if (!config) { ...; continue; }
                 THEN /\ results' = Put(results, id, NotFoundOutcome)
                      /\ UNCHANGED <<workers, active, engineCalls>>
                 ELSE \* results[id] = await checkMcpServer(config, {timeoutMs}, context)
                      /\ workers' = [workers EXCEPT ![w] = [st |-> "await", id |-> id]]
                      /\ active' = 0
                      /\ engineCalls' = Append(engineCalls,
                           [id |-> id, timeoutMs |-> engineOptions(options, ids).timeoutMs,
                            worker |-> w])
                      /\ UNCHANGED results
  /\ UNCHANGED <<servers, ids, options, batchPc, eng, restVars>>

\* The engine call worker w awaits resolves: its outcome is stored under the
\* id and the worker goes back to the head of its loop.  No engine call
\* settles while Array.from is still calling the workers.
EngineResolve(w) ==
  /\ active = 0
  /\ Unspawned = {}
  /\ workers[w].st = "await"
  /\ \E outcome \in EngineOutcomes(serversGet(workers[w].id)) :
       results' = Put(results, workers[w].id, outcome)
  /\ workers' = [workers EXCEPT ![w] = [st |-> "run", id |-> None]]
  /\ active' = w
  /\ UNCHANGED <<servers, ids, options, queue, batchPc, pops, engineCalls, eng, restVars>>

\* await Promise.all(workers)
AllSettled_AsRace == \E w \in DOMAIN workers : workers[w].st = "done"
AllSettled == \A w \in DOMAIN workers : workers[w].st = "done"

\* return results;
Return ==
  /\ batchPc = "running"
  /\ active = 0
  /\ AllSettled
  /\ batchPc' = "returned"
  /\ UNCHANGED <<servers, ids, options, queue, results, workers, active, pops, engineCalls, eng, restVars>>

Next == \/ \E w \in DOMAIN workers : SpawnWorker(w)
        \/ \E w \in DOMAIN workers : WorkerIterate(w)
        \/ \E w \in DOMAIN workers : EngineResolve(w)
        \/ Return

Spec == Init /\ [][Next]_vars

\* The event loop runs every worker that can run, every engine call of the
\* batch resolves, and a settled Promise.all resumes the batch function.
SpecFair == Spec /\ WF_vars(Next)

(***************************************************************************)
(* The scheduler with an engine call that rejects.  The worker function    *)
(* holds no try/catch around its await: the rejection ends that worker's   *)
(* promise, and Promise.all rejects as soon as one of its promises does.   *)
(* The other workers are not cancelled.                                    *)
(***************************************************************************)
EngineReject(w) ==
  /\ active = 0
  /\ Unspawned = {}
  /\ workers[w].st = "await"
  /\ workers' = [workers EXCEPT ![w].st = "threw"]
  /\ batchPc' = IF batchPc = "running" THEN "rejected" ELSE batchPc
  /\ UNCHANGED <<servers, ids, options, queue, results, active, pops, engineCalls, eng, restVars>>

NextThrow == \/ Next
             \/ \E w \in DOMAIN workers : EngineReject(w)

SpecThrow == Init /\ [][NextThrow]_vars

(***************************************************************************)
(* Claims about the batch scheduler.                                       *)
(***************************************************************************)
InFlight == {w \in DOMAIN workers : workers[w].st = "await"}
PopsAt(pos) == {i \in DOMAIN pops : pops[i][1] = pos}
CallsOf(id) == {i \in DOMAIN engineCalls : engineCalls[i].id = id}
LastPopOf(w) == LET mine == {i \in DOMAIN pops : pops[i][2] = w}
                IN  IF mine = {} THEN 0 ELSE pops[CHOOSE i \in mine : \A j \in mine : j <= i][1]

\* C1 (as claimed): when the batch returns, the result map holds an entry for
\* exactly the ids of the input list.
C1_BatchCompleteness ==
  batchPc = "returned" => DOMAIN results = Range(ids)

\* C2 (as claimed): when the batch returns, every element of the id list was
\* popped by exactly one worker, and at no time has the engine been invoked
\* more than once for one id.
C2_NonDuplication ==
  /\ batchPc = "returned" => \A pos \in DOMAIN ids : Cardinality(PopsAt(pos)) = 1
  /\ \A id \in Ids : Cardinality(CallsOf(id)) <= 1

\* C3 (as claimed): every popped id that is no key of the descriptor map has
\* the "MCP not found" failure with latency 0 as its entry, the engine is not
\* invoked for it, and the worker that popped it has not ended on it unless
\* it was the last element of the list.
C3_MissingDescriptor ==
  \A i \in DOMAIN pops :
    LET pos == pops[i][1]
        w == pops[i][2]
        id == ids[pos]
    IN  id \notin servers =>
          /\ id \in DOMAIN results
          /\ results[id] = NotFoundOutcome
          /\ CallsOf(id) = {}
          /\ (workers[w].st = "done" /\ LastPopOf(w) = pos) => pos = Len(ids)

\* C4: the batch returns only when every worker has ended, so that no engine
\* call is in flight in a returned batch, and a returned result map is never
\* written again.
C4_JoinBarrier ==
  /\ [](batchPc = "returned" =>
          /\ \A w \in DOMAIN workers : workers[w].st = "done"
          /\ InFlight = {}
          /\ active = 0)
  /\ [][batchPc = "returned" => results' = results]_vars

\* C4 witness: a batch that returned after two workers each ran an engine call.
C4_Witness ==
  /\ batchPc = "returned"
  /\ \E i, j \in DOMAIN engineCalls : engineCalls[i].worker /= engineCalls[j].worker

\* C5: at most max(1, concurrency) engine calls are in flight at any time and
\* exactly max(1, concurrency) workers exist.
C5_ConcurrencyCap ==
  /\ Cardinality(InFlight) <= Max(1, options.concurrency)
  /\ Cardinality(DOMAIN workers) = Max(1, options.concurrency)

\* C5 witness: the cap is reached with more than one worker while ids remain queued.
C5_Witness ==
  /\ options.concurrency >= 2
  /\ Cardinality(InFlight) = options.concurrency
  /\ Len(queue) > 0

\* C6 (as claimed): a worker whose engine call threw has a Fail entry recorded
\* for that id, and the batch is not rejected.
C6_ExceptionIsolation ==
  \A w \in DOMAIN workers :
    workers[w].st = "threw" =>
      /\ workers[w].id \in DOMAIN results
      /\ ~results[workers[w].id].ok
      /\ batchPc /= "rejected"

NextEngine == \/ EngineStart
              \/ ConnectSettle
              \/ PingSettle
              \/ ListToolsFallbackSettle
              \/ ToolsSettle
              \/ ResourcesSettle
              \/ PromptsSettle
              \/ CloseClient
              \/ CloseTransport
              \/ EngineReturn

SpecEngine == InitEngine /\ [][NextEngine]_vars

\* The call is one sequential async function: whenever the promise it awaits
\* can settle, it does, and the function runs on to its next await.
SpecEngineFair == SpecEngine /\ WF_vars(NextEngine)

(***************************************************************************)
(* Probes of a local process that writes to stderr while the probe runs,   *)
(* and of a websocket url, where no stderr listener is attached.  The      *)
(* capture and the catch block of getMcpCapabilities are the same code.    *)
(***************************************************************************)
StderrTimeoutMs == 6000
StderrConfigs ==
  { [url |-> UrlUnset, command |-> TRUE, type |-> <<>>],
    [url |-> Url("ws:", PathRoot), command |-> FALSE, type |-> <<>>] }

InitStderr ==
  /\ IdleBatch
  /\ IdleRest
  /\ eng \in { EngineCall("check", c, StderrTimeoutMs, stream)
               : c \in StderrConfigs, stream \in StderrStreams }

\* stderrStream.on('data', chunk => ...): the next chunk of the stream arrives.
\* The processes of the model have written all they write by the time the
\* probe has its outcome; the buffer is read in the catch block only.
StderrData ==
  /\ UNCHANGED <<batchVars, restVars>>
  /\ eng.stderrAttached
  /\ eng.stream \in {"blank", "lines", "long"}
  /\ eng.result = NoResult
  /\ eng.received < MaxChunks
  /\ eng' = [eng EXCEPT !.received = @ + 1,
                        !.stderrChunks = pushChunk(@, StderrChunk(eng.stream, eng.received + 1))]

NextStderr == \/ StderrData
              \/ EngineStart
              \/ ConnectSettle
              \/ PingSettle
              \/ ListToolsFallbackSettle
              \/ CloseClient
              \/ CloseTransport
              \/ EngineReturn
SpecStderr == InitStderr /\ [][NextStderr]_vars

(***************************************************************************)
(* Claims about the engines.                                               *)
(***************************************************************************)
\* The class of "method not found" errors as the specification words it: the
\* message contains, ignoring case, one of the four phrases.
InMethodNotFoundClass(message) ==
  \E pat \in {PatMethodNotFound, Pat32601, PatNotImplemented, PatUnknownMethod} :
    includes(toLowerCase(message), pat)

\* Every message a request of the model can fail with, and those of the class.
CandidateNames == {NameWebsocket, NameStreamable, NameLegacySse}
RequestErrors ==
  ServerErrors
    \cup {ConnectTimeout, PingTimeout, ListToolsTimeout, ListResourcesTimeout, ListPromptsTimeout}
    \cup {n \o ConnectTimeoutUrl : n \in CandidateNames}
    \cup {n \o PingTimeoutUrl : n \in CandidateNames}
MethodNotFoundMessages == {m \in RequestErrors : InMethodNotFoundClass(m)}
MethodNotFoundClass(message) == message \in MethodNotFoundMessages

ListMethods == {"listTools", "listResources", "listPrompts"}
CapabilityOf == [listTools |-> "tools", listResources |-> "resources", listPrompts |-> "prompts"]
NextListMethod == [listTools |-> "listResources", listResources |-> "listPrompts"]
EntriesOf(attempt) == {k \in DOMAIN eng.rpc : eng.rpc[k].attempt = attempt}
FatalEntry(r) ==
  r.status = "error" /\ (r.method = "connect" \/ ~MethodNotFoundClass(r.message))
\* connect and the three list calls of the attempt all completed
Completed(attempt) ==
  /\ \A k \in EntriesOf(attempt) : eng.rpc[k].status /= "pending" /\ ~FatalEntry(eng.rpc[k])
  /\ \A m \in ListMethods : \E k \in EntriesOf(attempt) : eng.rpc[k].method = m

\* C7 (as claimed): whenever a ping failed with a method-not-found class error,
\* the next request of the call is listTools on the same candidate's
\* connection, and the probe returns Ok when that listTools succeeds.
C7_PingFallback ==
  \A k \in DOMAIN eng.rpc :
    LET r == eng.rpc[k]
    IN  (r.method = "ping" /\ r.status = "error" /\ MethodNotFoundClass(r.message)) =>
          /\ k < Len(eng.rpc)
          /\ eng.rpc[k + 1].method = "listTools"
          /\ eng.rpc[k + 1].attempt = r.attempt
          /\ (eng.rpc[k + 1].status = "ok" /\ eng.pc = "done") => eng.returned = Ok

\* C8: in a discovery, a list call that fails with a method-not-found class
\* error is followed by the next list call on the same candidate (after
\* prompts/list, by the Ok outcome); and a discovery that returned Ok made each
\* list call once on its last candidate, reports a capability as supported
\* exactly when its call succeeded, and holds an empty list for each that failed.
C8_PartialSupport ==
  eng.mode = "capabilities" =>
    /\ \A k \in DOMAIN eng.rpc :
         LET r == eng.rpc[k]
         IN  (r.method \in ListMethods /\ r.status = "error" /\ MethodNotFoundClass(r.message)) =>
               IF r.method = "listPrompts"
               THEN k = Len(eng.rpc) /\ eng.result.kind = "ok"
               ELSE /\ k < Len(eng.rpc)
                    /\ eng.rpc[k + 1].attempt = r.attempt
                    /\ eng.rpc[k + 1].method = NextListMethod[r.method]
    /\ (eng.pc = "done" /\ eng.returned.kind = "ok") =>
         \A m \in ListMethods :
           LET ks == {k \in EntriesOf(eng.i) : eng.rpc[k].method = m}
           IN  /\ Cardinality(ks) = 1
               /\ \A k \in ks :
                    /\ eng.returned.supported[CapabilityOf[m]] = (eng.rpc[k].status = "ok")
                    /\ eng.rpc[k].status = "error" =>
                         eng.returned.capabilities[CapabilityOf[m]] = <<>>

\* C8 witness: a discovery returned Ok with resources unsupported, tools and prompts supported.
C8_Witness ==
  /\ eng.mode = "capabilities"
  /\ eng.pc = "done"
  /\ eng.returned.kind = "ok"
  /\ eng.returned.supported = [tools |-> TRUE, resources |-> FALSE, prompts |-> TRUE]
  /\ eng.returned.capabilities.resources = <<>>
  /\ eng.returned.capabilities.tools /= <<>>

\* C9: in a discovery, a list call that fails with any other error (its own
\* timeout included) is the last request on its candidate; the next candidate
\* is tried if one remains, else the call returns Fail; and the call returns Ok
\* exactly when connect and the three list calls completed on some candidate,
\* which is then the first such candidate and the last one tried.
C9_FatalListErrors ==
  eng.mode = "capabilities" =>
    /\ \A k \in DOMAIN eng.rpc :
         LET r == eng.rpc[k]
         IN  (r.method \in ListMethods /\ FatalEntry(r)) =>
               /\ \A j \in DOMAIN eng.rpc : j > k => eng.rpc[j].attempt /= r.attempt
               /\ eng.pc = "done" =>
                    IF r.attempt < Len(eng.attempts)
                    THEN \E j \in DOMAIN eng.rpc : j > k /\ eng.rpc[j].attempt = r.attempt + 1
                    ELSE eng.returned.kind = "fail"
    /\ eng.pc = "done" =>
         /\ eng.returned.kind = "ok" <=> (\E a \in 1..eng.i : Completed(a))
         /\ \A a \in 1..eng.i : Completed(a) => a = eng.i

\* C9 witness: the first candidate connected and failed resources/list with a
\* timeout, the second candidate completed, and the discovery returned Ok.
C9_Witness ==
  /\ eng.mode = "capabilities"
  /\ eng.pc = "done"
  /\ eng.returned.kind = "ok"
  /\ eng.i = 2
  /\ \E k \in EntriesOf(1) :
       /\ eng.rpc[k].method = "listResources"
       /\ eng.rpc[k].message = ListResourcesTimeout

\* C10: when a probe or a discovery has returned, close has been invoked on
\* every client and transport it created, and what it returned is the Ok or
\* Fail outcome computed before the last close, whether or not a close threw.
C10_ResourceDiscipline ==
  eng.pc = "done" =>
    /\ \A h \in DOMAIN eng.handles : eng.handles[h].closed
    /\ eng.returned.kind \in {"ok", "fail"}
    /\ eng.returned = eng.result

\* C10 witness: a call that tried two candidates returned Ok although a close threw.
C10_Witness ==
  /\ eng.pc = "done"
  /\ Len(eng.handles) = 4
  /\ eng.closeThrew
  /\ eng.returned.kind = "ok"

\* C11: a probe or a discovery never rejects: whatever the descriptor and
\* whatever the server does, the promise is pending until it resolves with an
\* Ok or a Fail outcome.
C11_EngineNeverThrows ==
  /\ eng.returned /= Rejected
  /\ eng.pc = "done" => eng.returned.kind \in {"ok", "fail"}
  /\ eng.pc /= "done" => eng.returned = NoResult

\* C11 witness: a call on a url that `new URL` rejects has returned a Fail.
C11_Witness ==
  /\ eng.pc = "done"
  /\ eng.config.url = UrlInvalid
  /\ eng.returned.kind = "fail"

RECURSIVE SumSeq(_)
SumSeq(s) == IF s = <<>> THEN 0 ELSE Head(s) + SumSeq(Tail(s))

\* C12 (as claimed): for a total timeout of at least 500 ms, the timeouts one
\* probe or discovery has armed so far, over all candidates and phases, sum
\* to at most the total timeout.
C12_PerTargetTimeBound ==
  eng.timeoutMs >= TotalFloorMs => SumSeq(eng.armed) <= eng.timeoutMs

(***************************************************************************)
(* splitTimeout on its own: one call on an integer number of milliseconds  *)
(* (every caller passes one: the REST layer floors timeoutMs, and the      *)
(* attempt budgets and the halves are integers) and a number of parts.     *)
(***************************************************************************)
InitSplit ==
  /\ IdleBatch
  /\ IdleRest
  /\ eng \in { [pc |-> "splitTimeout", totalMs |-> t, parts |-> n, out |-> <<>>]
               : t \in 0..MaxTotalMs, n \in 1..MaxParts }

SplitTimeoutCall ==
  /\ UNCHANGED <<batchVars, restVars>>
  /\ eng.pc = "splitTimeout"
  /\ eng' = [eng EXCEPT !.out = splitTimeout(eng.totalMs, eng.parts), !.pc = "returned"]

NextSplit == SplitTimeoutCall
SpecSplit == InitSplit /\ [][NextSplit]_vars

BudgetOf(a) ==
  IF ~UrlPath(eng) \/ Len(eng.attempts) = 1 THEN eng.timeoutMs ELSE eng.attemptTimeouts[a]

\* C14 (as claimed): in a probe, connect of every candidate is armed with the
\* first element and ping with the second element of the even 2-way split of
\* the candidate's budget; this includes the one candidate of a local process.
C14_InnerPhaseSplit ==
  eng.mode = "check" =>
    \A k \in DOMAIN eng.rpc :
      LET r == eng.rpc[k]
          halves == splitTimeout(BudgetOf(r.attempt), 2)
      IN  /\ r.method = "connect" => eng.armed[k] = halves[1]
          /\ r.method = "ping" => eng.armed[k] = halves[2]

\* 60% of a total timeout, rounded down: the integer q with 5q <= 3T < 5(q+1).
SixtyPercent ==
  [T \in EngineTimeouts |-> CHOOSE q \in 0..T : 5 * q <= 3 * T /\ 3 * T < 5 * (q + 1)]
HttpUrl(e) ==
  UrlPath(e) /\ e.config.url.valid /\ e.config.url.protocol \in {"http:", "https:"}

LastEntryOf(a) == CHOOSE k \in EntriesOf(a) : \A j \in EntriesOf(a) : j <= k
RecordOf(a) == eng.attempts[a] \o <<":", " ">> \o eng.rpc[LastEntryOf(a)].message
RECURSIVE RecordsUpTo(_)
RecordsUpTo(a) ==
  IF a = 1 THEN RecordOf(1) ELSE RecordsUpTo(a - 1) \o <<" ", "|", " ">> \o RecordOf(a)

OpenCandidates ==
  {eng.handles[h].attempt : h \in {x \in DOMAIN eng.handles : ~eng.handles[x].closed}}

\* C17: in one probe or discovery at most one candidate holds an open client
\* or transport; when candidate k+1 is opened, the last request of candidate
\* k has failed and close has been called on k's client and transport; and
\* once the call has its Ok outcome no further candidate is opened.
C17_SequentialCandidates ==
  /\ [](/\ Cardinality(OpenCandidates) <= 1
        /\ \A h \in DOMAIN eng.handles :
             /\ eng.handles[h].attempt <= eng.i
             /\ eng.handles[h].attempt < eng.i => eng.handles[h].closed
        /\ \A a \in 1..(eng.i - 1) :
             EntriesOf(a) /= {} /\ eng.rpc[LastEntryOf(a)].status = "error")
  /\ [][eng.result.kind = "ok" =>
          Len(eng'.handles) = Len(eng.handles) /\ eng'.i = eng.i]_vars

\* C17 witness: the second candidate is being connected after the first
\* failed and was closed.
C17_Witness ==
  /\ eng.i = 2
  /\ eng.pc = "connect"
  /\ Len(eng.handles) = 4
  /\ eng.handles[1].closed /\ eng.handles[2].closed
  /\ OpenCandidates = {2}

\* C18: a probe or a discovery of a descriptor with neither command nor url
\* creates no client and no transport, makes no request and arms no timeout;
\* its outcome is Fail "Missing command or url", and that is what it returns.
C18_ConfigError ==
  (~eng.config.url.set /\ ~eng.config.command) =>
    /\ eng.handles = <<>> /\ eng.client = 0 /\ eng.transport = 0
    /\ eng.rpc = <<>>
    /\ eng.armed = <<>>
    /\ eng.pc /= "start" =>
         eng.result = [kind |-> "fail", ok |-> FALSE, error |-> <<"M","i","s","s","i","n","g"," ","c","o","m","m","a","n","d"," ","o","r"," ","u","r","l">>]
    /\ eng.pc = "done" => eng.returned = eng.result

\* C18 witness: such a call has returned.
C18_Witness ==
  /\ ~eng.config.url.set /\ ~eng.config.command
  /\ eng.pc = "done"
  /\ eng.returned.kind = "fail"

\* The transport hint and the url path of a descriptor, read without regard
\* to letter case.
HintIs(cfg, hint) == toLowerCase(cfg.type) = hint
PathContainsSse(cfg) == includes(toLowerCase(cfg.url.pathname), <<"s","s","e">>)
LegacyFirst == <<<<"l","e","g","a","c","y","-","s","s","e">>, <<"s","t","r","e","a","m","a","b","l","e","-","h","t","t","p">>>>
StreamableFirst == <<<<"s","t","r","e","a","m","a","b","l","e","-","h","t","t","p">>, <<"l","e","g","a","c","y","-","s","s","e">>>>

\* The order of the two http candidates as claimed: legacy-sse first when the
\* hint is "sse" or the path contains "sse", whatever else the hint says.
ClaimedOrder ==
  [cfg \in Configs |->
     IF HintIs(cfg, <<"s","s","e">>) \/ PathContainsSse(cfg) THEN LegacyFirst ELSE StreamableFirst]

\* The order once a hint of "streamable-http" or "http" is let to override
\* the path.
AmendedOrder ==
  [cfg \in Configs |->
     IF \/ HintIs(cfg, <<"s","s","e">>)
        \/ PathContainsSse(cfg) /\ ~HintIs(cfg, <<"s","t","r","e","a","m","a","b","l","e","-","h","t","t","p">>) /\ ~HintIs(cfg, <<"h","t","t","p">>)
     THEN LegacyFirst ELSE StreamableFirst]

\* C19 (as claimed): the candidates of an http/https url are streamable-http
\* and legacy-sse, legacy-sse first whenever the hint is "sse" or the path
\* contains "sse", streamable-http first otherwise.
C19_HttpPreference ==
  (HttpUrl(eng) /\ eng.pc /= "start") => eng.attempts = ClaimedOrder[eng.config]

\* C19 (amended): the candidates of an http/https url are streamable-http and
\* legacy-sse; legacy-sse is first when the hint is "sse", or when the path
\* contains "sse" and the hint is neither "streamable-http" nor "http";
\* streamable-http is first otherwise.  Hint and path are compared in lower case.
C19_HttpPreferenceAmended ==
  (HttpUrl(eng) /\ eng.pc /= "start") =>
    /\ eng.attempts = AmendedOrder[eng.config]
    /\ eng.i \in 1..2

\* C19 witness: a path that contains "sse" under the hint "http": the second
\* candidate tried is legacy-sse.
C19_Witness ==
  /\ HttpUrl(eng)
  /\ PathContainsSse(eng.config) /\ HintIs(eng.config, <<"h","t","t","p">>)
  /\ eng.i = 2
  /\ eng.attempts[2] = <<"l","e","g","a","c","y","-","s","s","e">>

WebsocketUrl(e) ==
  UrlPath(e) /\ e.config.url.valid /\ e.config.url.protocol \in {"ws:", "wss:"}

\* C20: a probe or a discovery of a ws/wss url tries exactly one candidate,
\* named "websocket", whose budget is the whole total timeout: its connect
\* is armed with the first half of the total and what follows the connect
\* gets the second half.
C20_WebsocketResolution ==
  (WebsocketUrl(eng) /\ eng.pc /= "start") =>
    /\ eng.attempts = <<<<"w","e","b","s","o","c","k","e","t">>>>
    /\ eng.attemptTimeouts = <<eng.timeoutMs>>
    /\ eng.i = 1
    /\ Len(eng.handles) = 2
    /\ \A k \in DOMAIN eng.rpc : eng.rpc[k].attempt = 1
    /\ eng.rpc[1].method = "connect"
    /\ eng.armed[1] = splitTimeout(eng.timeoutMs, 2)[1]
    /\ eng.liveMs = splitTimeout(eng.timeoutMs, 2)[2]

\* C20 witness: a call on a wss url that also carries a command and the hint
\* "sse" has failed on its only candidate and returned.
C20_Witness ==
  /\ WebsocketUrl(eng)
  /\ eng.config.command
  /\ eng.pc = "done"
  /\ eng.returned.kind = "fail"
  /\ Len(eng.errors) = 1

(***************************************************************************)
(* Claims about the stderr capture.                                        *)
(***************************************************************************)
\* The k-th chunk the listener received.
ReceivedChunk(k) == StderrChunk(eng.stream, k)

\* C21: after any number of stderr data events of a local-process probe the
\* buffer holds at most 50 chunks, and they are the chunks received last, in
\* the order they arrived: all of them while no more than 50 have arrived,
\* the last 50 afterwards.
C21_RingBuffer ==
  LET n == eng.received
      held == IF n <= 50 THEN n ELSE 50
  IN  /\ Len(eng.stderrChunks) <= 50
      /\ Len(eng.stderrChunks) = held
      /\ \A k \in 1..held : eng.stderrChunks[k] = ReceivedChunk(n - held + k)

\* C21 witness: 52 chunks have arrived, the first two were dropped.
C21_Witness ==
  /\ eng.received = 52
  /\ eng.stream = "lines"
  /\ Len(eng.stderrChunks) = 50
  /\ eng.stderrChunks[1] = <<" ", "E", "3", "\n">>
  /\ eng.stderrChunks[50] = <<" ", "E", "2", "\n">>

\* The last n characters of a text.
LastChars(text, n) ==
  IF Len(text) <= n THEN text ELSE [k \in 1..n |-> text[Len(text) - n + k]]
StderrMark == <<" ","|"," ","s","t","d","e","r","r",":"," ">>
LocalProcess(e) == ~e.config.url.set /\ e.config.command

\* C22 (as claimed): when a probe of a local process gets its Fail outcome
\* and the stderr captured up to then is not empty, the error is the failed
\* request's message, " | stderr: " and the last 2000 characters of the
\* captured text; with nothing captured it is the message alone; an Ok
\* outcome carries no error and the Fail of a url probe no stderr suffix.
C22_StderrInFailures ==
  [][(eng.result = NoResult /\ eng'.result /= NoResult) =>
       LET captured == concat(eng.stderrChunks)
           message == eng'.rpc[Len(eng'.rpc)].message
       IN  /\ eng'.result.kind = "ok" => eng'.result = Ok
           /\ (eng'.result.kind = "fail" /\ LocalProcess(eng)) =>
                eng'.result.error =
                  IF Len(captured) > 0
                  THEN message \o StderrMark \o LastChars(captured, 2000)
                  ELSE message
           /\ (eng'.result.kind = "fail" /\ UrlPath(eng)) =>
                ~includes(eng'.result.error, StderrMark)]_vars

\* C22 (amended): as C22, with the captured text taken after its leading and
\* trailing whitespace is removed: the suffix is " | stderr: " and the last
\* 2000 characters of the trimmed text, and there is no suffix when the
\* trimmed text is empty.
C22_StderrInFailuresAmended ==
  [][(eng.result = NoResult /\ eng'.result /= NoResult) =>
       LET captured == trim(concat(eng.stderrChunks))
           message == eng'.rpc[Len(eng'.rpc)].message
       IN  /\ eng'.result.kind = "ok" => eng'.result = Ok
           /\ (eng'.result.kind = "fail" /\ LocalProcess(eng)) =>
                eng'.result.error =
                  IF Len(captured) > 0
                  THEN message \o StderrMark \o LastChars(captured, 2000)
                  ELSE message
           /\ (eng'.result.kind = "fail" /\ UrlPath(eng)) =>
                ~includes(eng'.result.error, StderrMark)]_vars

\* C22 witness: a probe of a process that wrote 50 chunks of 41 characters
\* returned "Connect timeout | stderr: " and 2000 characters of stderr.
C22_Witness ==
  /\ eng.pc = "done"
  /\ LocalProcess(eng)
  /\ eng.stream = "long"
  /\ eng.received = 50
  /\ eng.returned.kind = "fail"
  /\ Len(eng.returned.error) = 15 + 11 + 2000
  /\ eng.returned.error[15 + 11 + 2000] = "x"

(***************************************************************************)
(* Claims about waiting.                                                   *)
(***************************************************************************)
\* The call is suspended on a request (connect, ping, a list call) or on a
\* close() of its client or transport.
AwaitingRequest == eng.pc \in {"connect", "ping", "listTools", "tools", "resources", "prompts"}
AwaitingClose ==
  \/ eng.pc = "closeClient" /\ eng.client /= 0
  \/ eng.pc = "closeTransport" /\ eng.transport /= 0
\* A timer armed by withTimeout is running for the promise the call awaits.
TimerRunning ==
  /\ eng.rpc /= <<>>
  /\ eng.rpc[Len(eng.rpc)].status = "pending"
  /\ Len(eng.armed) = Len(eng.rpc)

\* C23 (as claimed): wherever the call is suspended a timer is running that
\* lets it proceed on expiry, and every call eventually returns an outcome.
C23_NoUnboundedWait ==
  /\ []((AwaitingRequest \/ AwaitingClose) => TimerRunning)
  /\ <>(eng.pc = "done" /\ eng.returned.kind \in {"ok", "fail"})

(***************************************************************************)
(* Claims about the batch, continued.                                      *)
(***************************************************************************)
\* C24 (as claimed): with engine calls that all return, the batch eventually
\* returns; a worker ends only in a step that leaves the queue empty, so
\* that the queue is empty whenever a worker has ended.
C24_BatchTermination ==
  /\ [][\A w \in DOMAIN workers :
          (workers[w].st /= "done" /\ workers'[w].st = "done") => queue' = <<>>]_vars
  /\ [](\A w \in DOMAIN workers : workers[w].st = "done" => queue = <<>>)
  /\ <>(batchPc = "returned")

\* C25: every engine call of a batch is given the timeout that was passed to
\* the batch, whatever the number of ids, the concurrency and the calls made
\* before it.
C25_PerTargetTimeout ==
  \A k \in DOMAIN engineCalls : engineCalls[k].timeoutMs = options.timeoutMs

\* C25 witness: the batch returned after three engine calls by two workers.
C25_Witness ==
  /\ batchPc = "returned"
  /\ Len(engineCalls) = 3
  /\ {engineCalls[k].worker : k \in DOMAIN engineCalls} = {1, 2}

(***************************************************************************)
(* The REST layer (routes/mcp.routes.ts): POST /check and                  *)
(* POST /capabilities.  A JSON number of the body is kept in half          *)
(* milliseconds, so that Math.floor has something to do; the other values  *)
(* a body can carry are told apart by their JavaScript type.               *)
(***************************************************************************)
Routes == {"check", "capabilities"}

MaxHalfMs == 120004       \* largest timeoutMs of a request body, in half milliseconds

Finite(halves) == [t |-> "number", halves |-> halves]
Undefined == [t |-> "undefined"]
NonNumbers == {Undefined, [t |-> "null"], [t |-> "string"], [t |-> "boolean"]}
NonFinite == {[t |-> "NaN"], [t |-> "Infinity"], [t |-> "-Infinity"]}
BodyTimeouts == {Finite(h) : h \in (-4)..MaxHalfMs} \cup NonFinite \cup NonNumbers

\* typeof v === 'number'
IsNumber(v) == v \in NonFinite \/ v.t = "number"
\* Number.isFinite(v)
IsFinite(v) == v.t = "number"
\* Math.floor of a finite number, in milliseconds
MathFloor(v) == v.halves \div 2

RouteFloorMs == 500
CheckCeilingMs == 30000
CheckDefaultMs == 6000
CapabilitiesCeilingMs == 60000
CapabilitiesDefaultMs == 10000

CeilingMs(route) == IF route = "check" THEN CheckCeilingMs ELSE CapabilitiesCeilingMs
DefaultMs(route) == IF route = "check" THEN CheckDefaultMs ELSE CapabilitiesDefaultMs

\* typeof timeoutMs === 'number' && Number.isFinite(timeoutMs)
\*   ? Math.max(500, Math.min(30_000, Math.floor(timeoutMs))) : 6_000
effectiveTimeoutMs_AsNoFloorClamp(route, timeoutMs) ==
  IF IsNumber(timeoutMs) /\ IsFinite(timeoutMs)
  THEN Min(CeilingMs(route), MathFloor(timeoutMs))
  ELSE DefaultMs(route)
effectiveTimeoutMs(route, timeoutMs) ==
  IF IsNumber(timeoutMs) /\ IsFinite(timeoutMs)
  THEN Max(RouteFloorMs, Min(CeilingMs(route), MathFloor(timeoutMs)))
  ELSE DefaultMs(route)

\* The clamp on its own: one request body and the timeout computed from it.
InitClamp ==
  /\ IdleBatch
  /\ eng = [pc |-> "idle"]
  /\ store = [pc |-> "idle"]
  /\ http \in [pc : {"received"}, route : Routes, timeoutMs : BodyTimeouts,
               effectiveTimeoutMs : {0}]

ClampTimeout ==
  /\ http.pc = "received"
  /\ http' = [http EXCEPT !.effectiveTimeoutMs = effectiveTimeoutMs(http.route, http.timeoutMs),
                          !.pc = "clamped"]
  /\ UNCHANGED <<batchVars, eng, store>>

NextClamp == ClampTimeout
SpecClamp == InitClamp /\ [][NextClamp]_vars

\* C27: the timeout the REST layer hands to the engine is an integer of
\* [500, 30000] for /check and of [500, 60000] for /capabilities, and a
\* timeoutMs that is missing or not a finite number gives 6000 for /check and
\* 10000 for /capabilities.
C27_TimeoutClamp ==
  http.pc = "clamped" =>
    /\ http.effectiveTimeoutMs \in Int
    /\ http.effectiveTimeoutMs >= 500
    /\ http.route = "check" => http.effectiveTimeoutMs <= 30000
    /\ http.route = "capabilities" => http.effectiveTimeoutMs <= 60000
    /\ (http.timeoutMs = Undefined \/ http.timeoutMs \in NonFinite) =>
         http.effectiveTimeoutMs = (IF http.route = "check" THEN 6000 ELSE 10000)

\* A /check request with timeoutMs 499.5 was handed on as 500.
C27_Witness ==
  /\ http.pc = "clamped"
  /\ http.route = "check"
  /\ http.timeoutMs = Finite(999)
  /\ http.effectiveTimeoutMs = 500

(***************************************************************************)
(* One request to POST /check or POST /capabilities, from the handler's    *)
(* first line to its response.  The handler awaits getHosts, readConfig    *)
(* and the batch; the batch is the scheduler modelled above.               *)
(***************************************************************************)
MaxBodyIds == 2           \* longest `ids` array of a request body

\* this.hosts, in its order; every one of them is in the list getHosts
\* returns, whether its configuration file was found or not.
GlobalHostIds == <<"cursor", "vscode", "claude-desktop", "claude-code", "copilot", "codex">>
PresetActiveHostId == "claude-code"
KnownHostIds == {GlobalHostIds[k] : k \in DOMAIN GlobalHostIds}

\* What the request finds on disk: the hosts whose file exists, and the
\* mcpServers keys of the target's file.
DetectedSets == SUBSET {"vscode", "claude-code"}

\* detectInstalledHosts: the preset host if detected, else the first detected
\* global host, else the first global host.
activeHostId(detected) ==
  IF PresetActiveHostId \in detected THEN PresetActiveHostId
  ELSE IF detected /= {}
       THEN GlobalHostIds[CHOOSE k \in DOMAIN GlobalHostIds :
                            /\ GlobalHostIds[k] \in detected
                            /\ \A j \in 1..(k-1) : GlobalHostIds[j] \notin detected]
       ELSE GlobalHostIds[1]

\* req.body: hostId, ids and timeoutMs.  An element of ids is a string or not.
BodyHostIds == {None, "", "vscode", "nope"}
StringItem(s) == [t |-> "string", s |-> s]
NumberItem == [t |-> "number", s |-> "7"]
BodyItems == {StringItem(s) : s \in Ids} \cup {NumberItem}
NoArray == [t |-> "undefined", items |-> <<>>]
BodyIds == {NoArray} \cup {[t |-> "array", items |-> q] : q \in SeqsUpTo(BodyItems, MaxBodyIds)}
RouteTimeouts == {Undefined, Finite(999)}

\* JavaScript truthiness of a string or undefined
Truthy(v) == v /= None /\ v /= ""

\* const targetHostId = hostId || hosts.find(h => h.active)?.id;
targetHostId(hostId, detected) == IF Truthy(hostId) THEN hostId ELSE activeHostId(detected)

\* ids.filter(x => typeof x === 'string')
RECURSIVE filterStrings(_)
filterStrings(items) ==
  IF items = <<>> THEN <<>>
  ELSE IF Head(items).t = "string" THEN <<Head(items).s>> \o filterStrings(Tail(items))
  ELSE filterStrings(Tail(items))

\* Object.keys(config.mcpServers)
KeyOrder == <<"a", "b">>
ObjectKeys(keys) == SelectSeq(KeyOrder, LAMBDA k : k \in keys)

\* Array.isArray(ids) && ids.length > 0 ? ids.filter(...) : allIds
selectedIds(bodyIds, allIds) ==
  IF bodyIds.t = "array" /\ Len(bodyIds.items) > 0 THEN filterStrings(bodyIds.items) ELSE allIds

RouteConcurrency == 2

NoTargetHost == <<"N","o"," ","t","a","r","g","e","t"," ","h","o","s","t"," ","s","p","e","c","i","f","i","e","d">>
HostNotFound == <<"H","o","s","t"," ","n","o","t"," ","f","o","u","n","d">>
BatchRejected == <<"U","n","k","n","o","w","n"," ","e","r","r","o","r">>

NoResponse == [status |-> 0]
\* res.status(code).json({ success: false, error })
errorResponse(code, error) == [status |-> code, success |-> FALSE, error |-> error]
\* res.json({ success: true, data: { hostId, timeoutMs, results } })
batchResponse_AsErrorOnFail(hostId, timeoutMs, res) ==
  IF \E id \in DOMAIN res : ~res[id].ok
  THEN errorResponse(500, BatchRejected)
  ELSE [status |-> 200, success |-> TRUE, hostId |-> hostId, timeoutMs |-> timeoutMs, results |-> res]
batchResponse(hostId, timeoutMs, res) ==
  [status |-> 200, success |-> TRUE, hostId |-> hostId, timeoutMs |-> timeoutMs, results |-> res]

InitRoute ==
  /\ IdleBatch
  /\ eng = [pc |-> "idle"]
  /\ store = [pc |-> "idle"]
  /\ http \in [pc : {"received"}, route : Routes,
               hostId : BodyHostIds, ids : BodyIds, timeoutMs : RouteTimeouts,
               detected : DetectedSets, fileKeys : SUBSET OwnKeys,
               response : {NoResponse}]

\* The handler up to its await of the batch: getHosts, the target host,
\* readConfig (which throws for an id that is no host, and gives an empty map
\* for a file that cannot be read), the id list and the timeout.
RouteReceive ==
  /\ http.pc = "received"
  /\ LET target == targetHostId(http.hostId, http.detected)
         mcpServers == IF target \in http.detected THEN http.fileKeys ELSE {}
         effective == effectiveTimeoutMs(http.route, http.timeoutMs)
     IN  IF ~Truthy(target)
         THEN /\ http' = [http EXCEPT !.pc = "responded",
                                      !.response = errorResponse(400, NoTargetHost)]
              /\ UNCHANGED batchVars
         ELSE IF target \notin KnownHostIds
         THEN /\ http' = [http EXCEPT !.pc = "responded",
                                      !.response = errorResponse(500, HostNotFound)]
              /\ UNCHANGED batchVars
         ELSE /\ http' = [http EXCEPT !.pc = "awaitBatch"]
              /\ servers' = mcpServers
              /\ ids' = selectedIds(http.ids, ObjectKeys(mcpServers))
              /\ options' = [timeoutMs |-> effective, concurrency |-> RouteConcurrency]
              /\ queue' = ids'
              /\ results' = <<>>
              /\ workers' = [k \in 1..NumWorkers(options', ids') |-> [st |-> "new", id |-> None]]
              /\ active' = 0
              /\ batchPc' = "running"
              /\ pops' = <<>>
              /\ engineCalls' = <<>>
  /\ UNCHANGED <<eng, store>>

\* The batch settles and the handler answers: its map for a batch that
\* returned, the catch block's 500 for one that rejected.
RouteRespond ==
  /\ http.pc = "awaitBatch"
  /\ batchPc \in {"returned", "rejected"}
  /\ http' = [http EXCEPT !.pc = "responded",
                !.response =
                   IF batchPc = "returned"
                   THEN batchResponse(targetHostId(http.hostId, http.detected),
                                      options.timeoutMs, results)
                   ELSE errorResponse(500, BatchRejected)]
  /\ UNCHANGED <<batchVars, eng, store>>

NextRoute == \/ RouteReceive
             \/ \E w \in DOMAIN workers : SpawnWorker(w)
             \/ \E w \in DOMAIN workers : WorkerIterate(w)
             \/ \E w \in DOMAIN workers : EngineResolve(w)
             \/ Return
             \/ RouteRespond

SpecRoute == InitRoute /\ [][NextRoute]_vars

\* The host a request names, or the active host when it names none.
RequestedHost == IF http.hostId \in {None, ""} THEN activeHostId(http.detected) ELSE http.hostId
FailedProbes == {id \in DOMAIN results : ~results[id].ok}

\* C26: POST /check and POST /capabilities answer success:true with the
\* id -> outcome map of the batch whenever the request's target host is a host
\* of the service, however many probes returned Fail; an HTTP error is the
\* answer only to a request without such a host, decided before any probe ran.
C26_HttpBoundary ==
  http.pc = "responded" =>
    /\ RequestedHost \in KnownHostIds =>
         /\ http.response.status = 200
         /\ http.response.success
         /\ http.response.results = results
    /\ http.response.status /= 200 =>
         /\ ~http.response.success
         /\ RequestedHost \notin KnownHostIds
         /\ engineCalls = <<>>

\* A request whose two probes both returned Fail was answered with success:true.
C26_Witness ==
  /\ http.pc = "responded"
  /\ http.response.status = 200
  /\ Cardinality(FailedProbes) = 2
  /\ Len(engineCalls) = 2
  /\ \A id \in DOMAIN results : ~results[id].ok

(***************************************************************************)
(* ConfigService: add, update, delete and toggle of one server entry of a  *)
(* host's configuration.  A call resolves its host, then runs as a task of *)
(* the operation queue of the host's file (enqueueFileOp) or, for Codex,   *)
(* backs the file up and then runs as a task of the Codex queue            *)
(* (enqueueCodexOp).  A task backs up, reads, decides and writes; every    *)
(* one of these awaits lets the other calls run.                           *)
(***************************************************************************)
MaxCalls == 2             \* calls issued together

McpIds == <<"a", "b">>
Operations == <<"add", "update", "delete", "toggle">>
HostIds == <<"cursor", "claude-code", "claude-code-project", "codex">>

\* The hosts resolveHost can give: format, scope and configuration file.
HostTable ==
  [h \in {HostIds[k] : k \in DOMAIN HostIds} |->
     CASE h = "cursor" -> [format |-> "mcpServers", scope |-> "global", configPath |-> "cursor"]
       [] h = "claude-code" -> [format |-> "claudeJson", scope |-> "global", configPath |-> "claude"]
       [] h = "claude-code-project" ->
            [format |-> "claudeJson", scope |-> "project", configPath |-> "claude"]
       [] h = "codex" -> [format |-> "codexMcp", scope |-> "global", configPath |-> "codex"]]
resolveHost(hostId) == HostTable[hostId]

\* fileOpKeyForHost: ~/.claude.json for every Claude Code host, else the host's file
fileOpKeyForHost(host) == IF host.format = "claudeJson" THEN "claude" ELSE host.configPath

\* A server entry: `rev` stands for command, args and env; `disabled` and
\* `enabled` are the JSON / TOML literals, or None when the key is absent.
Entry(rev, flag) == [rev |-> rev, disabled |-> flag]
NewConfig == Entry(1, "false")            \* the config handed to add and update
\* stripDisabledFlagForClaude
stripDisabledFlagForClaude(config) == [config EXCEPT !.disabled = None]

Remove(map, id) == [x \in (DOMAIN map) \ {id} |-> map[x]]

\* The three files as the calls find them: both ids are entries of each one.
InitialFiles ==
  [cursor |-> [mcpServers |-> [a |-> Entry(0, None), b |-> Entry(0, "true")]],
   claude |-> [mcpServers |-> [a |-> Entry(0, None)],
               project |-> [mcpServers |-> [b |-> Entry(0, None)],
                            disabledMcpServers |-> <<"b">>]],
   codex |-> [mcp_servers |-> [a |-> [rev |-> 0, enabled |-> None],
                               b |-> [rev |-> 0, enabled |-> "false"]]]]

NoContent == [none |-> TRUE]

\* What a task does with the content it read: throws, or writes `content`.
\* The messages of the errors the operations throw.
AlreadyExists == "already exists"
AlreadyExistsInProject == "already exists in this project"
NotFound == "not found"
NotProjectOverride == "is not a project override (inherited from global)"
NotFoundInOverrides == "not found in this project's overrides"
ToggleUnsupported == "Claude Code user level does not support enable/disable"
Throws(message) == [throws |-> TRUE, content |-> NoContent, message |-> message]
Writes(content) == [throws |-> FALSE, content |-> content, message |-> None]

\* currentConfig.mcpServers[mcpId].disabled = !(disabled || false)
flipDisabled(entry) == [entry EXCEPT !.disabled = IF @ = "true" THEN "false" ELSE "true"]

\* Hosts of format mcpServers: readConfig, the check, the change, writeConfig.
\* writeConfig writes { mcpServers } and nothing else.
applyJson(op, id, json, config) ==
  LET m == json.mcpServers IN
  CASE op = "add" -> IF id \in DOMAIN m THEN Throws(AlreadyExists)
                     ELSE Writes([mcpServers |-> Put(m, id, config)])
    [] op = "update" -> IF id \notin DOMAIN m THEN Throws(NotFound)
                        ELSE Writes([mcpServers |-> Put(m, id, config)])
    [] op = "delete" -> IF id \notin DOMAIN m THEN Throws(NotFound)
                        ELSE Writes([mcpServers |-> Remove(m, id)])
    [] op = "toggle" -> IF id \notin DOMAIN m THEN Throws(NotFound)
                        ELSE Writes([mcpServers |-> Put(m, id, flipDisabled(m[id]))])

\* Claude Code, user level: throw new Error('Claude Code 用户级不支持启用/禁用...')
toggleClaudeUser_AsFlag(json, id) ==
  IF id \notin DOMAIN json.mcpServers THEN Throws(NotFound)
  ELSE Writes([json EXCEPT !.mcpServers = Put(@, id, flipDisabled(@[id]))])
toggleClaudeUser(json, id) == Throws(ToggleUnsupported)

\* Claude Code, user level: the root mcpServers of ~/.claude.json
applyClaudeUser(op, id, json, config) ==
  LET m == json.mcpServers
      sanitized == stripDisabledFlagForClaude(config) IN
  CASE op = "add" -> IF id \in DOMAIN m THEN Throws(AlreadyExists)
                     ELSE Writes([json EXCEPT !.mcpServers = Put(m, id, sanitized)])
    [] op = "update" -> IF id \notin DOMAIN m THEN Throws(NotFound)
                        ELSE Writes([json EXCEPT !.mcpServers = Put(m, id, sanitized)])
    [] op = "delete" -> IF id \notin DOMAIN m THEN Throws(NotFound)
                        ELSE Writes([json EXCEPT !.mcpServers = Remove(m, id)])
    [] op = "toggle" -> toggleClaudeUser(json, id)

\* current.includes(mcpId) ? current.filter(x => x !== mcpId) : [...current, mcpId]
nextDisabled(current, id) ==
  IF \E k \in DOMAIN current : current[k] = id
  THEN SelectSeq(current, LAMBDA x : x /= id)
  ELSE Append(current, id)

\* Claude Code, project level: the project's section of ~/.claude.json
applyClaudeProject(op, id, json, config) ==
  LET p == json.project.mcpServers
      sanitized == stripDisabledFlagForClaude(config) IN
  CASE op = "add" -> IF id \in DOMAIN p THEN Throws(AlreadyExistsInProject)
                     ELSE Writes([json EXCEPT !.project.mcpServers = Put(p, id, sanitized)])
    [] op = "update" -> IF id \notin DOMAIN p THEN Throws(NotProjectOverride)
                        ELSE Writes([json EXCEPT !.project.mcpServers = Put(p, id, sanitized)])
    [] op = "delete" -> IF id \notin DOMAIN p THEN Throws(NotFoundInOverrides)
                        ELSE Writes([json EXCEPT !.project.mcpServers = Remove(p, id)])
    [] op = "toggle" ->
         IF id \notin DOMAIN json.mcpServers /\ id \notin DOMAIN p THEN Throws(NotFound)
         ELSE Writes([json EXCEPT !.project.disabledMcpServers = nextDisabled(@, id)])

\* toggleCodexMcpEnabledInToml: the enabled line of the table [mcp_servers.<id>],
\* true when there is none
flipEnabled(table) == [table EXCEPT !.enabled = IF @ = "false" THEN "true" ELSE "false"]

\* Codex: `codex mcp add`, `codex mcp remove` (update is remove, then add) and
\* the toggle, which edits config.toml itself.
applyCodex(op, id, toml, config) ==
  LET m == toml.mcp_servers
      added == [rev |-> config.rev, enabled |-> None] IN
  CASE op = "add" -> Writes([mcp_servers |-> Put(m, id, added)])
    [] op = "update" -> Writes([mcp_servers |-> Put(Remove(m, id), id, added)])
    [] op = "delete" -> Writes([mcp_servers |-> Remove(m, id)])
    [] op = "toggle" -> IF id \notin DOMAIN m THEN Throws(NotFound)
                        ELSE Writes([mcp_servers |-> Put(m, id, flipEnabled(m[id]))])

applyOperation(host, op, id, content, config) ==
  CASE host.format = "mcpServers" -> applyJson(op, id, content, config)
    [] host.format = "claudeJson" /\ host.scope = "project" -> applyClaudeProject(op, id, content, config)
    [] host.format = "claudeJson" /\ host.scope = "global" -> applyClaudeUser(op, id, content, config)
    [] host.format = "codexMcp" -> applyCodex(op, id, content, config)

\* What toggleMCP returns, read off the content it wrote: true = enabled.
\*   return !currentConfig.mcpServers[mcpId].disabled;  return !next.includes(mcpId);
\*   return nextEnabled
Bool(b) == IF b THEN "true" ELSE "false"
toggleReturns_AsDisabled(host, id, next) ==
  CASE host.format = "mcpServers" -> Bool(next.mcpServers[id].disabled = "true")
    [] host.format = "claudeJson" ->
         Bool(\E k \in DOMAIN next.project.disabledMcpServers :
                next.project.disabledMcpServers[k] = id)
    [] host.format = "codexMcp" -> Bool(next.mcp_servers[id].enabled /= "true")
toggleReturns(host, id, next) ==
  CASE host.format = "mcpServers" -> Bool(next.mcpServers[id].disabled /= "true")
    [] host.format = "claudeJson" ->
         Bool(~\E k \in DOMAIN next.project.disabledMcpServers :
                 next.project.disabledMcpServers[k] = id)
    [] host.format = "codexMcp" -> Bool(next.mcp_servers[id].enabled = "true")

\* run.then(() => undefined, () => undefined): the queue a rejected task
\* leaves behind lets the next task run.
afterRejection_AsPoisoned(q) == q
afterRejection(q) == Tail(q)

\* previous.then(task, task): a task runs once every task queued before it on
\* the same queue has settled.
mayRun_AsUnqueued(q, c) == \E k \in DOMAIN q : q[k] = c
mayRun(q, c) == q /= <<>> /\ Head(q) = c

\* The calls are issued together and carry no order of their own: the k-th
\* combination of host, operation and id, one representative per multiset.
\* One more call is the toggle, on the Codex host, of an id no file holds.
MissingId == "c"
NumCombinations == Len(HostIds) * Len(Operations) * Len(McpIds) + 1
Combination(n) ==
  IF n = NumCombinations - 1 THEN [hostId |-> "codex", op |-> "toggle", mcpId |-> MissingId] ELSE
  [hostId |-> HostIds[(n \div (Len(Operations) * Len(McpIds))) + 1],
   op |-> Operations[((n \div Len(McpIds)) % Len(Operations)) + 1],
   mcpId |-> McpIds[(n % Len(McpIds)) + 1]]
CallSets ==
  {pick \in [1..MaxCalls -> 0..(NumCombinations - 1)] :
     \A k \in 1..(MaxCalls - 1) : pick[k] <= pick[k + 1]}
NewCall(n) ==
  [hostId |-> Combination(n).hostId, op |-> Combination(n).op, mcpId |-> Combination(n).mcpId,
   pc |-> "resolveHost", outcome |-> "pending",
   backup |-> NoContent, next |-> NoContent, before |-> NoContent, wrote |-> FALSE,
   read |-> NoContent, message |-> None, returned |-> None]

InitConfig ==
  /\ IdleBatch
  /\ eng = [pc |-> "idle"]
  /\ http = [pc |-> "idle"]
  /\ store \in {[pc |-> "serving",
                 files |-> InitialFiles,
                 fileOpQueues |-> [claude |-> <<>>, cursor |-> <<>>],
                 codexOpQueue |-> <<>>,
                 enqueued |-> [claude |-> <<>>, cursor |-> <<>>, codex |-> <<>>],
                 started |-> [claude |-> <<>>, cursor |-> <<>>, codex |-> <<>>],
                 calls |-> [k \in 1..MaxCalls |-> NewCall(pick[k])]] : pick \in CallSets}

hostOf(c) == resolveHost(store.calls[c].hostId)
fileOf(c) == hostOf(c).configPath
IsCodex(c) == hostOf(c).format = "codexMcp"
queueOf(c) == IF IsCodex(c) THEN store.codexOpQueue ELSE store.fileOpQueues[fileOpKeyForHost(hostOf(c))]
\* The queue of call c by name; `enqueued` and `started` keep, per queue, the
\* order in which tasks were queued and in which they began to run.
queueKey(c) == IF IsCodex(c) THEN "codex" ELSE fileOpKeyForHost(hostOf(c))

\* await this.resolveHost(hostId) has settled: a file host's call queues its task
EnqueueFileOp(c) ==
  /\ store.calls[c].pc = "resolveHost"
  /\ ~IsCodex(c)
  /\ store' = [store EXCEPT !.fileOpQueues[fileOpKeyForHost(hostOf(c))] = Append(@, c),
                             !.enqueued[queueKey(c)] = Append(@, c),
                             !.calls[c].pc = "queued"]
  /\ UNCHANGED <<batchVars, eng, http>>

\* await this.backupConfig(hostId): the file as it is now is copied to
\* data/backups.  A file host's call does it as the first step of its task, a
\* Codex call before it queues its task.
BackupConfig(c) ==
  /\ IF IsCodex(c) THEN store.calls[c].pc = "resolveHost"
     ELSE store.calls[c].pc = "queued" /\ mayRun(queueOf(c), c)
  /\ store' = [store EXCEPT !.calls[c].backup = store.files[fileOf(c)],
                             !.started[queueKey(c)] = IF IsCodex(c) THEN @ ELSE Append(@, c),
                             !.calls[c].pc = "backedUp"]
  /\ UNCHANGED <<batchVars, eng, http>>

\* this.enqueueCodexOp(...)
EnqueueCodexOp(c) ==
  /\ store.calls[c].pc = "backedUp"
  /\ IsCodex(c)
  /\ store' = [store EXCEPT !.codexOpQueue = Append(@, c),
                             !.enqueued[queueKey(c)] = Append(@, c),
                             !.calls[c].pc = "codexQueued"]
  /\ UNCHANGED <<batchVars, eng, http>>

\* The task reads the file and decides: it throws, which rejects the call and
\* lets the next task run, or it has the content it is going to write.
ReadAndDecide(c) ==
  /\ store.calls[c].pc = (IF IsCodex(c) THEN "codexQueued" ELSE "backedUp")
  /\ mayRun(queueOf(c), c)
  /\ LET call == store.calls[c]
         result == applyOperation(hostOf(c), call.op, call.mcpId, store.files[fileOf(c)], NewConfig)
         begun == [store EXCEPT !.calls[c].read = store.files[fileOf(c)],
                                !.started[queueKey(c)] = IF IsCodex(c) THEN Append(@, c) ELSE @]
     IN  IF result.throws
         THEN store' = [begun EXCEPT
                  !.calls[c].pc = "done", !.calls[c].outcome = "rejected",
                  !.calls[c].message = result.message,
                  !.codexOpQueue = IF IsCodex(c) THEN afterRejection(@) ELSE @,
                  !.fileOpQueues = IF IsCodex(c) THEN @
                                   ELSE [@ EXCEPT ![fileOpKeyForHost(hostOf(c))] = afterRejection(@)]]
         ELSE store' = [begun EXCEPT !.calls[c].pc = "write", !.calls[c].next = result.content]
  /\ UNCHANGED <<batchVars, eng, http>>

\* The write (writeFileAtomic, fs.writeFile or the codex CLI) replaces the
\* file; the call resolves and the next task of the queue may run.
WriteFile(c) ==
  /\ store.calls[c].pc = "write"
  /\ store' = [store EXCEPT
       !.files[fileOf(c)] = store.calls[c].next,
       !.calls[c].before = store.files[fileOf(c)],
       !.calls[c].wrote = TRUE,
       !.calls[c].returned = IF store.calls[c].op = "toggle"
                             THEN toggleReturns(hostOf(c), store.calls[c].mcpId, store.calls[c].next)
                             ELSE None,
       !.calls[c].pc = "done", !.calls[c].outcome = "resolved",
       !.codexOpQueue = IF IsCodex(c) THEN Tail(@) ELSE @,
       !.fileOpQueues = IF IsCodex(c) THEN @
                        ELSE [@ EXCEPT ![fileOpKeyForHost(hostOf(c))] = Tail(@)]]
  /\ UNCHANGED <<batchVars, eng, http>>

NextConfig == \/ \E c \in 1..MaxCalls : EnqueueFileOp(c)
              \/ \E c \in 1..MaxCalls : BackupConfig(c)
              \/ \E c \in 1..MaxCalls : EnqueueCodexOp(c)
              \/ \E c \in 1..MaxCalls : ReadAndDecide(c)
              \/ \E c \in 1..MaxCalls : WriteFile(c)

SpecConfig == InitConfig /\ [][NextConfig]_vars

(***************************************************************************)
(* Claims about the configuration service.                                 *)
(***************************************************************************)
Calls == DOMAIN store.calls
AllDone == \A c \in Calls : store.calls[c].pc = "done"
CallsOn(file) == {c \in Calls : resolveHost(store.calls[c].hostId).configPath = file}

\* The entries a host shows and whether it shows one as disabled, read off
\* the content of its file.
ServersOf(hostId, content) ==
  CASE hostId = "cursor" -> DOMAIN content.mcpServers
    [] hostId = "claude-code" -> DOMAIN content.mcpServers
    [] hostId = "claude-code-project" ->
         (DOMAIN content.mcpServers) \cup (DOMAIN content.project.mcpServers)
    [] hostId = "codex" -> DOMAIN content.mcp_servers
DisabledOn(hostId, content, id) ==
  CASE hostId = "cursor" -> content.mcpServers[id].disabled = "true"
    [] hostId = "claude-code" -> content.mcpServers[id].disabled = "true"
    [] hostId = "claude-code-project" ->
         \E k \in DOMAIN content.project.disabledMcpServers :
           content.project.disabledMcpServers[k] = id
    [] hostId = "codex" -> content.mcp_servers[id].enabled = "false"

\* The calls on the file of host h are toggles on h, one per id, for ids that
\* are entries of h; calls on other files may run along with them.
ConcurrentToggles(h) ==
  LET file == resolveHost(h).configPath
      mine == CallsOn(file) IN
  /\ mine /= {}
  /\ \A c \in mine : /\ store.calls[c].hostId = h
                     /\ store.calls[c].op = "toggle"
                     /\ store.calls[c].mcpId \in ServersOf(h, InitialFiles[file])
  /\ \A c, d \in mine : c /= d => store.calls[c].mcpId /= store.calls[d].mcpId

AllTookEffect(h) ==
  LET file == resolveHost(h).configPath
      mine == CallsOn(file) IN
  /\ \A c \in mine : store.calls[c].outcome = "resolved"
  /\ ServersOf(h, store.files[file]) = ServersOf(h, InitialFiles[file])
  /\ \A c \in mine :
       DisabledOn(h, store.files[file], store.calls[c].mcpId)
         = ~DisabledOn(h, InitialFiles[file], store.calls[c].mcpId)
  /\ \A id \in ServersOf(h, InitialFiles[file]) \ {store.calls[c].mcpId : c \in mine} :
       DisabledOn(h, store.files[file], id) = DisabledOn(h, InitialFiles[file], id)

ToggleHosts == {"cursor", "claude-code", "claude-code-project", "codex"}

\* C28 (as claimed): for distinct ids that are entries of one host's file,
\* toggleMCP calls issued together all take effect: once they have completed,
\* each of the servers has its disabled state flipped and no entry is lost.
C28_NoLostUpdates ==
  \A h \in ToggleHosts : (AllDone /\ ConcurrentToggles(h)) => AllTookEffect(h)

\* C28 (amended): the same for every host but the Claude Code user-level host,
\* on which a toggle is refused.
C28_NoLostUpdatesAmended ==
  \A h \in ToggleHosts \ {"claude-code"} : (AllDone /\ ConcurrentToggles(h)) => AllTookEffect(h)

\* Two toggles issued together on the Cursor host, for a and for b, have both
\* completed: a is now disabled, b enabled.
C28_Witness ==
  /\ AllDone
  /\ ConcurrentToggles("cursor")
  /\ Cardinality(CallsOn("cursor")) = 2
  /\ store.files.cursor.mcpServers["a"].disabled = "true"
  /\ store.files.cursor.mcpServers["b"].disabled = "false"

IsClaudeToggle(c, scope) ==
  /\ store.calls[c].op = "toggle"
  /\ resolveHost(store.calls[c].hostId).format = "claudeJson"
  /\ resolveHost(store.calls[c].hostId).scope = scope
Steps(c) == store.calls[c].pc /= store.calls'[c].pc

\* C29: toggleMCP on the Claude Code user-level host fails with an error for
\* every server id and none of its steps changes ~/.claude.json; a toggle that
\* changes the file is one on a project-level Claude Code host.
C29_ClaudeUserToggle ==
  [][\A c \in Calls :
       /\ (IsClaudeToggle(c, "global") /\ Steps(c)) =>
            /\ store.files'.claude = store.files.claude
            /\ store.calls'[c].pc = "done" => store.calls'[c].outcome = "rejected"
       /\ (store.calls[c].op = "toggle" /\ Steps(c)
             /\ resolveHost(store.calls[c].hostId).format = "claudeJson"
             /\ store.files'.claude /= store.files.claude) =>
            resolveHost(store.calls[c].hostId).scope = "project"]_vars

\* A toggle on the user-level host was rejected after its backup, with
\* ~/.claude.json as it was, while the same toggle on the project-level host
\* resolved and is in the file.
C29_Witness ==
  \E c, d \in Calls :
    /\ IsClaudeToggle(c, "global") /\ store.calls[c].pc = "done"
    /\ store.calls[c].outcome = "rejected"
    /\ store.calls[c].backup = InitialFiles.claude
    /\ IsClaudeToggle(d, "project") /\ store.calls[d].outcome = "resolved"
    /\ store.calls[d].mcpId = "a"
    /\ store.files.claude.mcpServers = InitialFiles.claude.mcpServers
    /\ store.files.claude.project.disabledMcpServers = <<"b", "a">>

\* C30: before an add, update, delete or toggle writes a host's file, the
\* call has backed up the file as it was immediately before that write; for
\* every host format and every interleaving of the calls.
C30_BackupBeforeMutation ==
  \A c \in Calls : store.calls[c].wrote => store.calls[c].backup = store.calls[c].before

\* Requests of candidate a, by method and outcome.
Succeeded(a, methods) ==
  {k \in EntriesOf(a) : eng.rpc[k].method \in methods /\ eng.rpc[k].status = "ok"}

\* C31: a probe returns Ok only if, on one candidate, connect succeeded and
\* afterwards ping, or the listTools fallback, succeeded on that connection;
\* and no ping or list request is issued on a candidate whose connect failed
\* or timed out.
C31_OkSoundness ==
  eng.mode = "check" =>
    /\ eng.result.kind = "ok" =>
         \E a \in 1..eng.i :
           \E c \in Succeeded(a, {"connect"}) :
             \E r \in Succeeded(a, {"ping", "listTools"}) : c < r
    /\ \A k \in DOMAIN eng.rpc :
         eng.rpc[k].method /= "connect" =>
           \E c \in Succeeded(eng.rpc[k].attempt, {"connect"}) : c < k

\* The probe of a local process returned Ok through the listTools fallback:
\* connect succeeded, ping failed with a missing method, listTools succeeded.
C31_Witness ==
  /\ eng.mode = "check"
  /\ eng.pc = "done"
  /\ eng.returned.kind = "ok"
  /\ Len(eng.rpc) = 3
  /\ eng.rpc[1].method = "connect" /\ eng.rpc[1].status = "ok"
  /\ eng.rpc[2].method = "ping" /\ eng.rpc[2].status = "error"
  /\ eng.rpc[3].method = "listTools" /\ eng.rpc[3].status = "ok"

(***************************************************************************)
(* The sync guard of ConfigService.  Every write of a configuration file   *)
(* sets the one flag `syncing` and, when it ends, arms a timer that clears *)
(* the flag 1000 ms later (writeJsonFileWithSyncGuard, writeConfig).  The  *)
(* watcher's handler drops a change event while the flag is set.  Writes   *)
(* to different files are tasks of different queues and overlap.  Time is  *)
(* the clock of the process in steps of TickMs; a timer fires at its time  *)
(* or at the first tick after it.                                          *)
(***************************************************************************)
MaxWrites == 2            \* writes of the service in one run
MaxClockMs == 3000        \* the clock stops here
TickMs == 500             \* granularity of the clock
SyncGuardMs == 1000       \* setTimeout(() => { this.syncing = false; }, 1000)

IdleWrite == [pc |-> "idle", finishedAt |-> 0, event |-> "none"]

InitSync ==
  /\ IdleBatch
  /\ eng = [pc |-> "idle"]
  /\ http = [pc |-> "idle"]
  /\ store = [pc |-> "watching", syncing |-> FALSE, now |-> 0,
              writes |-> [w \in 1..MaxWrites |-> IdleWrite],
              timers |-> {}, onChange |-> <<>>]

\* this.syncing = true; then the write begins
StartWrite(w) ==
  /\ store.writes[w].pc = "idle"
  /\ store' = [store EXCEPT !.syncing = TRUE, !.writes[w].pc = "writing"]
  /\ UNCHANGED <<batchVars, eng, http>>

\* writeFileAtomic has replaced the file: the watcher will see a change.  The
\* finally block arms the timer.
FinishWrite(w) ==
  /\ store.writes[w].pc = "writing"
  /\ store' = [store EXCEPT !.writes[w] = [pc |-> "done", finishedAt |-> store.now,
                                           event |-> "pending"],
                             !.timers = @ \cup {store.now + SyncGuardMs}]
  /\ UNCHANGED <<batchVars, eng, http>>

\* A timer that is due runs: this.syncing = false
TimerFires ==
  /\ \E t \in store.timers :
       /\ t <= store.now
       /\ store' = [store EXCEPT !.syncing = FALSE, !.timers = @ \ {t}]
  /\ UNCHANGED <<batchVars, eng, http>>

\* The change event of write w reaches the watcher less than 1000 ms after
\* the write finished:  if (this.syncing) return;  ... onChange(config)
ChangeEvent(w) ==
  /\ store.writes[w].event = "pending"
  /\ store.now - store.writes[w].finishedAt < SyncGuardMs
  /\ store' = [store EXCEPT
       !.writes[w].event = IF store.syncing THEN "dropped" ELSE "delivered",
       !.onChange = IF store.syncing THEN @ ELSE Append(@, w)]
  /\ UNCHANGED <<batchVars, eng, http>>

\* Time passes; no timer that is due is left behind.
Tick ==
  /\ store.now + TickMs <= MaxClockMs
  /\ \A t \in store.timers : t > store.now
  /\ store' = [store EXCEPT !.now = @ + TickMs]
  /\ UNCHANGED <<batchVars, eng, http>>

NextSync == \/ \E w \in 1..MaxWrites : StartWrite(w)
            \/ \E w \in 1..MaxWrites : FinishWrite(w)
            \/ \E w \in 1..MaxWrites : ChangeEvent(w)
            \/ TimerFires
            \/ Tick

SpecSync == InitSync /\ [][NextSync]_vars

\* C32: a change event caused by a write of the service, arriving while the
\* write is in progress or within 1000 ms after it finished, never reaches
\* onChange, whatever the overlap of the writes: the syncing flag is set
\* throughout every write and for 1000 ms after it.
C32_SyncGuard ==
  /\ store.onChange = <<>>
  /\ \A w \in DOMAIN store.writes :
       \/ store.writes[w].pc = "idle"
       \/ store.writes[w].pc = "done" /\ store.now - store.writes[w].finishedAt >= SyncGuardMs
       \/ store.syncing

Waiting(c) == store.calls[c].pc = (IF IsCodex(c) THEN "codexQueued" ELSE "queued")
\* The calls queued before call c on its queue.
QueuedBefore(c) ==
  LET q == store.enqueued[queueKey(c)] IN
  {q[k] : k \in {j \in DOMAIN q : \E i \in DOMAIN q : q[i] = c /\ j < i}}
\* What the task of call c gives on the content it read.
OwnResult(c) ==
  applyOperation(hostOf(c), store.calls[c].op, store.calls[c].mcpId, store.calls[c].read, NewConfig)

\* C37: when a queued file or Codex operation rejects, only its own caller
\* gets the rejection: a task waiting behind settled tasks, rejected or not,
\* may start, and every call that has completed has the outcome and the error
\* of its own task on the file it read.
C37_QueueSurvivesFailures ==
  \A c \in Calls :
    /\ (Waiting(c) /\ \A b \in QueuedBefore(c) : store.calls[b].pc = "done")
         => mayRun(queueOf(c), c)
    /\ store.calls[c].pc = "done" =>
         /\ store.calls[c].outcome = (IF OwnResult(c).throws THEN "rejected" ELSE "resolved")
         /\ store.calls[c].message = OwnResult(c).message
         /\ store.calls[c].wrote = ~OwnResult(c).throws

\* On the Codex queue the toggle of an id config.toml does not hold was
\* rejected with "not found"; the toggle of b, queued behind it, has resolved
\* and enabled b.  On a file queue the same happens in C37_FileWitness.
C37_Witness ==
  /\ store.enqueued.codex = <<2, 1>>
  /\ store.calls[2].outcome = "rejected" /\ store.calls[2].message = NotFound
  /\ store.calls[1].op = "toggle" /\ store.calls[1].mcpId = "b"
  /\ store.calls[1].outcome = "resolved" /\ store.calls[1].returned = "true"
  /\ store.files.codex.mcp_servers["b"].enabled = "true"

\* The toggle on the Claude Code user-level host was rejected; the add on the
\* project host, queued behind it on the queue of ~/.claude.json, has resolved.
C37_FileWitness ==
  /\ store.enqueued.claude = <<1, 2>>
  /\ store.calls[1].hostId = "claude-code" /\ store.calls[1].outcome = "rejected"
  /\ store.calls[1].message = ToggleUnsupported
  /\ store.calls[2].hostId = "claude-code-project" /\ store.calls[2].op = "add"
  /\ store.calls[2].outcome = "resolved"
  /\ "a" \in DOMAIN store.files.claude.project.mcpServers

\* The servers a host holds as its own: for a project host its overrides.
OwnServersOf(hostId, content) ==
  IF hostId = "claude-code-project" THEN DOMAIN content.project.mcpServers
  ELSE ServersOf(hostId, content)
SaysAlreadyExists(message) == message \in {AlreadyExists, AlreadyExistsInProject}
SaysNotFound(message) == message \in {NotFound, NotFoundInOverrides}
\* Call c is an add of an id its host holds, or an update, delete or toggle of
\* an id its host does not show, on the file as its task read it.
MustBeRejected(c) ==
  LET call == store.calls[c] IN
  IF call.op = "add" THEN call.mcpId \in OwnServersOf(call.hostId, call.read)
  ELSE call.mcpId \notin ServersOf(call.hostId, call.read)

\* C38: addMCP of an id that already exists fails with "already exists", and
\* updateMCP, deleteMCP or toggleMCP of an id that does not exist fails with
\* "not found"; in each case the call leaves the host's file as it was.
C38_RejectedMutations ==
  \A c \in Calls :
    (store.calls[c].pc = "done" /\ MustBeRejected(c)) =>
      /\ store.calls[c].outcome = "rejected"
      /\ IF store.calls[c].op = "add" THEN SaysAlreadyExists(store.calls[c].message)
         ELSE SaysNotFound(store.calls[c].message)
      /\ ~store.calls[c].wrote

IsToggle(c) == store.calls[c].op = "toggle" /\ store.calls[c].outcome = "resolved"
EnabledOn(hostId, content, id) == ~DisabledOn(hostId, content, id)

\* C39: on every host that supports it, toggleMCP returns the new enabled
\* state of the server (true = enabled), which is the negation of its state
\* before the call; two successive toggles of one server restore its enabled
\* state and leave the state of every other server as it was.
C39_ToggleInvolution ==
  /\ \A c \in Calls :
       IsToggle(c) =>
         LET call == store.calls[c] IN
         /\ call.returned = Bool(EnabledOn(call.hostId, call.next, call.mcpId))
         /\ call.returned = Bool(~EnabledOn(call.hostId, call.before, call.mcpId))
         /\ ServersOf(call.hostId, call.next) = ServersOf(call.hostId, call.before)
         /\ \A id \in ServersOf(call.hostId, call.before) \ {call.mcpId} :
              EnabledOn(call.hostId, call.next, id) = EnabledOn(call.hostId, call.before, id)
  /\ \A c, d \in Calls :
       (/\ IsToggle(c) /\ IsToggle(d) /\ c /= d
        /\ store.calls[c].hostId = store.calls[d].hostId
        /\ store.calls[c].mcpId = store.calls[d].mcpId
        /\ store.calls[d].before = store.calls[c].next) =>
         \A id \in ServersOf(store.calls[c].hostId, store.calls[c].before) :
           EnabledOn(store.calls[d].hostId, store.calls[d].next, id)
             = EnabledOn(store.calls[c].hostId, store.calls[c].before, id)

\* Two toggles of b on the Codex host, one after the other: the first enabled
\* it and returned true, the second disabled it again and returned false.
C39_Witness ==
  \E c, d \in Calls :
    /\ c /= d /\ IsToggle(c) /\ IsToggle(d)
    /\ store.calls[c].hostId = "codex" /\ store.calls[d].hostId = "codex"
    /\ store.calls[c].mcpId = "b" /\ store.calls[d].mcpId = "b"
    /\ store.calls[c].returned = "true" /\ store.calls[d].returned = "false"
    /\ store.calls[d].before = store.calls[c].next
    /\ store.files.codex.mcp_servers["b"].enabled = "false"
    /\ store.files.codex.mcp_servers["a"] = InitialFiles.codex.mcp_servers["a"]

(***************************************************************************)
(* The capabilities cache: one file per host and server id, written by     *)
(* writeCapabilitiesCache and read by readCapabilitiesCache and            *)
(* readCapabilitiesCacheEntry.  The clock is Date.now() in steps of        *)
(* CacheTickMs.  The host and server ids of the model are left as they are *)
(* by safeSegment, so each pair has a file of its own.                     *)
(***************************************************************************)
MaxCacheTicks == 4                   \* the clock stops after this many steps
CacheTickMs == 302400000             \* one step of the clock: half of the ttl
capabilitiesOkTtlMs == 604800000     \* 7 * 24 * 60 * 60 * 1000

CacheHosts == {"cursor", "codex"}
CacheKeys == {<<h, "a">> : h \in CacheHosts}

\* A discovery result: `rev` stands for the capabilities, `size` for the
\* length of the entry's JSON: it fits, it fits once shrunk, or it does not.
OkResult(rev, size) == [ok |-> TRUE, rev |-> rev, size |-> size]
FailResult == [ok |-> FALSE, rev |-> 0, size |-> "fits"]
CacheResults == {OkResult(rev, size) : rev \in {1, 2}, size \in {"fits", "shrinks", "tooBig"}}
                  \cup {FailResult}

MissingFile == [t |-> "missing"]
GarbageFile == [t |-> "garbage"]
CacheEntry(cachedAt, ttlMs, result) ==
  [t |-> "entry", cachedAt |-> cachedAt, ttlMs |-> ttlMs, result |-> result]
\* What a file of the cache directory may hold when the service starts.
CacheSeeds ==
  {MissingFile, GarbageFile,
   CacheEntry(CacheTickMs, capabilitiesOkTtlMs, FailResult),
   CacheEntry(CacheTickMs, 0, OkResult(1, "fits")),
   CacheEntry(0, capabilitiesOkTtlMs, OkResult(1, "fits")),
   CacheEntry(CacheTickMs, CacheTickMs, OkResult(1, "fits"))}

\* shrinkResultForCache: at most 200 tools, and without schemas, resources and
\* prompts when that is still too long
shrinkResultForCache(result) ==
  IF ~result.ok THEN result
  ELSE IF result.size = "fits" THEN result
  ELSE [result EXCEPT !.size = IF @ = "shrinks" THEN "fits" ELSE @]

\* writeCapabilitiesCache: the file of the key after the call
writeCapabilitiesCache_AsCachesFailures(file, result, now) ==
  IF shrinkResultForCache(result).size = "tooBig" THEN file
  ELSE CacheEntry(now, capabilitiesOkTtlMs, shrinkResultForCache(result))
writeCapabilitiesCache(file, result, now) ==
  IF ~result.ok THEN file
  ELSE IF shrinkResultForCache(result).size = "tooBig" THEN file
  ELSE CacheEntry(now, capabilitiesOkTtlMs, shrinkResultForCache(result))

\* The checks both readers make before they return anything.
isFresh_AsNeverExpires(file, now) ==
  /\ file.t = "entry"
  /\ file.result.ok = TRUE
  /\ file.cachedAt > 0 /\ file.ttlMs > 0
isFresh(file, now) ==
  /\ file.t = "entry"
  /\ file.result.ok = TRUE
  /\ file.cachedAt > 0 /\ file.ttlMs > 0
  /\ ~(now - file.cachedAt > file.ttlMs)

NullValue == [t |-> "null"]
readCapabilitiesCache(file, now) ==
  IF isFresh(file, now) THEN [t |-> "result", result |-> file.result] ELSE NullValue
readCapabilitiesCacheEntry(file, now) ==
  IF isFresh(file, now)
  THEN [t |-> "entry", cachedAt |-> file.cachedAt, ttlMs |-> file.ttlMs, result |-> file.result]
  ELSE NullValue

NoCacheCall == [api |-> "none"]

InitCache ==
  /\ IdleBatch
  /\ eng = [pc |-> "idle"]
  /\ http = [pc |-> "idle"]
  /\ \E seed \in CacheSeeds :
       store = [pc |-> "cache", now |-> CacheTickMs,
                files |-> [k \in CacheKeys |-> seed],
                lapsed |-> [k \in CacheKeys |-> FALSE],
                last |-> NoCacheCall]

\* await writeCapabilitiesCache(hostId, mcpId, result)
WriteCache(k, result) ==
  /\ store' = [store EXCEPT
       !.files[k] = writeCapabilitiesCache(@, result, store.now),
       !.lapsed[k] = IF writeCapabilitiesCache(store.files[k], result, store.now) /= store.files[k]
                     THEN FALSE ELSE @,
       !.last = [api |-> "write", key |-> k, result |-> result, now |-> store.now,
                 before |-> store.files, lapsed |-> store.lapsed[k]]]
  /\ UNCHANGED <<batchVars, eng, http>>

\* await readCapabilitiesCache(hostId, mcpId)
ReadCache(k) ==
  /\ store' = [store EXCEPT
       !.last = [api |-> "read", key |-> k, now |-> store.now, before |-> store.files,
                 lapsed |-> store.lapsed[k],
                 returned |-> readCapabilitiesCache(store.files[k], store.now)]]
  /\ UNCHANGED <<batchVars, eng, http>>

\* await readCapabilitiesCacheEntry(hostId, mcpId)
ReadCacheEntry(k) ==
  /\ store' = [store EXCEPT
       !.last = [api |-> "readEntry", key |-> k, now |-> store.now, before |-> store.files,
                 lapsed |-> store.lapsed[k],
                 returned |-> readCapabilitiesCacheEntry(store.files[k], store.now)]]
  /\ UNCHANGED <<batchVars, eng, http>>

\* Time passes.  `lapsed` remembers that the entry of a key was seen past its
\* ttl since the last write that replaced it.
Past(file, now) == file.t = "entry" /\ now - file.cachedAt > file.ttlMs
CacheTick ==
  /\ store.now + CacheTickMs <= (MaxCacheTicks + 1) * CacheTickMs
  /\ store' = [store EXCEPT
       !.now = @ + CacheTickMs,
       !.lapsed = [k \in CacheKeys |-> @[k] \/ Past(store.files[k], store.now + CacheTickMs)]]
  /\ UNCHANGED <<batchVars, eng, http>>

NextCache == \/ \E k \in CacheKeys, result \in CacheResults : WriteCache(k, result)
             \/ \E k \in CacheKeys : ReadCache(k)
             \/ \E k \in CacheKeys : ReadCacheEntry(k)
             \/ CacheTick

SpecCache == InitCache /\ [][NextCache]_vars

IsRead == store.pc = "cache" /\ store.last.api \in {"read", "readEntry"}

\* C34: a write of a Fail result leaves the cache as it was, so that an Ok
\* result cached before for the same host and id is read as before, and
\* readCapabilitiesCache returns null or a result with ok = true.
C34_FailuresNeverCached ==
  /\ (store.pc = "cache" /\ store.last.api = "write" /\ ~store.last.result.ok) =>
       /\ store.files = store.last.before
       /\ \A k \in CacheKeys :
            readCapabilitiesCache(store.files[k], store.now)
              = readCapabilitiesCache(store.last.before[k], store.now)
  /\ (store.pc = "cache" /\ store.last.api = "read") =>
       \/ store.last.returned = NullValue
       \/ store.last.returned.result.ok = TRUE
  /\ store.pc = "cache" =>
       \A k \in CacheKeys : store.files[k].t = "entry" =>
         (store.files[k].result.ok \/ store.files[k] \in CacheSeeds)

\* A Fail result was written for a key that holds an Ok entry which is still
\* fresh: the entry is there and is what a read returns.
C34_Witness ==
  /\ store.pc = "cache"
  /\ store.last.api = "write" /\ ~store.last.result.ok
  /\ store.files[store.last.key].t = "entry"
  /\ store.files[store.last.key].cachedAt < store.now
  /\ readCapabilitiesCache(store.files[store.last.key], store.now)
       = [t |-> "result", result |-> OkResult(2, "fits")]

\* C35: both readers return an entry only while now - cachedAt <= ttlMs,
\* which is 7 days for an entry writeCapabilitiesCache wrote; an entry that
\* was seen expired is not returned again until a new Ok result has been
\* written for the same host and id.
C35_CacheExpiry ==
  /\ (IsRead /\ store.last.returned /= NullValue) =>
       /\ store.last.now - store.last.before[store.last.key].cachedAt
            <= store.last.before[store.last.key].ttlMs
       /\ ~store.last.lapsed
  /\ store.pc = "cache" =>
       \A k \in CacheKeys :
         (store.files[k].t = "entry" /\ store.files[k] \notin CacheSeeds) =>
           store.files[k].ttlMs = capabilitiesOkTtlMs

\* An entry written by the service was returned at the last instant of its
\* ttl and, one step of the clock later, a read of it gave null.
C35_Witness ==
  /\ IsRead
  /\ store.last.returned = NullValue
  /\ store.files[store.last.key].t = "entry"
  /\ store.files[store.last.key] \notin CacheSeeds
  /\ store.files[store.last.key].result.ok
  /\ store.now - store.files[store.last.key].cachedAt = capabilitiesOkTtlMs + CacheTickMs
  /\ store.lapsed[store.last.key]

(***************************************************************************)
(* ~/.claude.json as a JSON value, and what the operations on a Claude     *)
(* Code host make of it.  A value carries its type in t; an object's v is  *)
(* the function from its keys to their values.                             *)
(***************************************************************************)
Obj(fields) == [t |-> "object", v |-> fields]
Arr(items) == [t |-> "array", v |-> items]
Num(n) == [t |-> "number", v |-> n]
Str(s) == [t |-> "string", v |-> s]
UndefinedValue == [t |-> "undefined", v |-> 0]
EmptyFields == [k \in {} |-> UndefinedValue]
Get(obj, key) ==
  IF obj.t = "object" /\ key \in DOMAIN obj.v THEN obj.v[key] ELSE UndefinedValue
\* { ...obj, [key]: value }
Spread(obj, key, value) == Obj(Put(obj.v, key, value))

\* typeof value === 'object' && value !== null && !Array.isArray(value)
isRecord(value) == value.t = "object"
\* toStringArray: the strings of an array, [] for anything else
toStringArray(value) ==
  IF value.t /= "array" THEN <<>> ELSE SelectSeq(value.v, LAMBDA x : x \in STRING)

ProjectPath == "/p"           \* the project of the project-level host
OtherProjectPath == "/q"

extractMcpServersFromClaudeJson(json) ==
  IF ~isRecord(json) THEN EmptyFields
  ELSE IF isRecord(Get(json, "mcpServers")) THEN Get(json, "mcpServers").v
  ELSE IF isRecord(Get(json, "mcp")) /\ isRecord(Get(Get(json, "mcp"), "mcpServers"))
       THEN Get(Get(json, "mcp"), "mcpServers").v
  ELSE EmptyFields

\* The projects container and the project's section in either place.
projectsContainerOf(root) == IF isRecord(Get(root, "projects")) THEN Get(root, "projects") ELSE Obj(EmptyFields)
existingSectionOf(root, projectPath) ==
  IF isRecord(Get(root, projectPath)) THEN Get(root, projectPath)
  ELSE IF isRecord(Get(projectsContainerOf(root), projectPath))
       THEN Get(projectsContainerOf(root), projectPath)
  ELSE Obj(EmptyFields)

extractProjectSectionFromClaudeJson(json, projectPath) ==
  IF ~isRecord(json) THEN UndefinedValue
  ELSE IF isRecord(Get(json, projectPath)) THEN Get(json, projectPath)
  ELSE IF isRecord(Get(projectsContainerOf(json), projectPath))
       THEN Get(projectsContainerOf(json), projectPath)
  ELSE UndefinedValue

extractProjectMcpServersFromClaudeJson(json, projectPath) ==
  extractMcpServersFromClaudeJson(extractProjectSectionFromClaudeJson(json, projectPath))

extractDisabledMcpServersFromClaudeSection(section) ==
  IF ~isRecord(section) THEN <<>> ELSE toStringArray(Get(section, "disabledMcpServers"))

\* Where a project's next section is written: back to the top-level key it
\* came from, else under `projects` when there is such a container, else to a
\* new top-level key.
writeSectionBack(root, projectPath, nextSection) ==
  IF isRecord(Get(root, projectPath)) THEN Spread(root, projectPath, nextSection)
  ELSE IF isRecord(Get(root, "projects"))
       THEN Spread(root, "projects", Spread(Get(root, "projects"), projectPath, nextSection))
  ELSE Spread(root, projectPath, nextSection)

hasNested(obj) ==
  /\ isRecord(Get(obj, "mcp"))
  /\ isRecord(Get(Get(obj, "mcp"), "mcpServers"))
  /\ ~isRecord(Get(obj, "mcpServers"))

writeProjectMcpServersIntoClaudeJson(existing, projectPath, mcpServers) ==
  LET root == IF isRecord(existing) THEN existing ELSE Obj(EmptyFields)
      existingSection == existingSectionOf(root, projectPath)
      nextSection ==
        IF hasNested(existingSection)
        THEN Spread(existingSection, "mcp",
                    Spread(Get(existingSection, "mcp"), "mcpServers", Obj(mcpServers)))
        ELSE Spread(existingSection, "mcpServers", Obj(mcpServers))
  IN  writeSectionBack(root, projectPath, nextSection)

\* patch is { disabledMcpServers: next }
writeProjectSectionIntoClaudeJson(existing, projectPath, next) ==
  LET root == IF isRecord(existing) THEN existing ELSE Obj(EmptyFields)
      nextSection == Spread(existingSectionOf(root, projectPath), "disabledMcpServers", Arr(next))
  IN  writeSectionBack(root, projectPath, nextSection)

writeMcpServersIntoClaudeJson_AsFresh(existing, mcpServers) ==
  Obj([k \in {"mcpServers"} |-> Obj(mcpServers)])
writeMcpServersIntoClaudeJson(existing, mcpServers) ==
  IF ~isRecord(existing) THEN Obj([k \in {"mcpServers"} |-> Obj(mcpServers)])
  ELSE IF hasNested(existing)
       THEN Spread(existing, "mcp", Spread(Get(existing, "mcp"), "mcpServers", Obj(mcpServers)))
  ELSE Spread(existing, "mcpServers", Obj(mcpServers))

\* A server's configuration: an object the service does not look into.
ServerJson(entry) == [t |-> "config", v |-> entry]
Servers(names) == [id \in names |-> ServerJson(Entry(0, None))]
FrameOperations == {"add", "update", "delete", "toggle", "writeConfig"}
FrameHosts == {"claude-code", "claude-code-project"}

\* The claudeJson branch of addMCP, updateMCP, deleteMCP and toggleMCP, and
\* writeConfig: the JSON the call writes, or the error it throws.
claudeJsonOperation(hostId, op, id, existingJson, config) ==
  LET sanitized == ServerJson(stripDisabledFlagForClaude(config))
      userServers == extractMcpServersFromClaudeJson(existingJson)
      projectServers == extractProjectMcpServersFromClaudeJson(existingJson, ProjectPath)
      current == extractDisabledMcpServersFromClaudeSection(
                   extractProjectSectionFromClaudeJson(existingJson, ProjectPath))
      given == [k \in {id} |-> ServerJson(config)]        \* config.mcpServers of writeConfig
  IN
  IF resolveHost(hostId).scope = "project"
  THEN CASE op = "add" ->
              IF id \in DOMAIN projectServers THEN Throws(AlreadyExistsInProject)
              ELSE Writes(writeProjectMcpServersIntoClaudeJson(
                            existingJson, ProjectPath, Put(projectServers, id, sanitized)))
         [] op = "update" ->
              IF id \notin DOMAIN projectServers THEN Throws(NotProjectOverride)
              ELSE Writes(writeProjectMcpServersIntoClaudeJson(
                            existingJson, ProjectPath, Put(projectServers, id, sanitized)))
         [] op = "delete" ->
              IF id \notin DOMAIN projectServers THEN Throws(NotFoundInOverrides)
              ELSE Writes(writeProjectMcpServersIntoClaudeJson(
                            existingJson, ProjectPath, Remove(projectServers, id)))
         [] op = "toggle" ->
              IF id \notin DOMAIN userServers /\ id \notin DOMAIN projectServers THEN Throws(NotFound)
              ELSE Writes(writeProjectSectionIntoClaudeJson(
                            existingJson, ProjectPath, nextDisabled(current, id)))
         [] op = "writeConfig" ->
              Writes(writeProjectMcpServersIntoClaudeJson(existingJson, ProjectPath, given))
  ELSE CASE op = "add" ->
              IF id \in DOMAIN userServers THEN Throws(AlreadyExists)
              ELSE Writes(writeMcpServersIntoClaudeJson(existingJson, Put(userServers, id, sanitized)))
         [] op = "update" ->
              IF id \notin DOMAIN userServers THEN Throws(NotFound)
              ELSE Writes(writeMcpServersIntoClaudeJson(existingJson, Put(userServers, id, sanitized)))
         [] op = "delete" ->
              IF id \notin DOMAIN userServers THEN Throws(NotFound)
              ELSE Writes(writeMcpServersIntoClaudeJson(existingJson, Remove(userServers, id)))
         [] op = "toggle" -> Throws(ToggleUnsupported)
         [] op = "writeConfig" -> Writes(writeMcpServersIntoClaudeJson(existingJson, given))

\* The shapes of ~/.claude.json: where the user-level servers are, where the
\* project's section is and where the servers are inside it; another project
\* and a key that has nothing to do with MCP are always there.
GlobalShapes == {"direct", "nested", "none", "array"}
SectionPlaces == {"direct", "container", "both", "absentWithContainer", "absent", "scalar"}
SectionShapes == {"direct", "nested", "none"}
GlobalPart(shape) ==
  CASE shape = "direct" -> [k \in {"mcpServers"} |-> Obj(Servers({"a"}))]
    [] shape = "nested" ->
         [k \in {"mcp"} |-> Obj([mcpServers |-> Obj(Servers({"a"})), theme |-> Str("dark")])]
    [] shape = "array" -> [k \in {"mcpServers"} |-> Arr(<<>>)]
    [] shape = "none" -> EmptyFields
SectionOf(shape) ==
  LET rest == [allowedTools |-> Arr(<<"Bash">>), disabledMcpServers |-> Arr(<<"b">>)] IN
  CASE shape = "direct" -> Obj(Put(rest, "mcpServers", Obj(Servers({"b"}))))
    [] shape = "nested" ->
         Obj(Put(rest, "mcp", Obj([mcpServers |-> Obj(Servers({"b"})), theme |-> Str("light")])))
    [] shape = "none" -> Obj(rest)
OtherSection == Obj([mcpServers |-> Obj(Servers({"z"})), allowedTools |-> Arr(<<>>)])
ProjectPart(place, shape) ==
  LET other == [k \in {OtherProjectPath} |-> OtherSection] IN
  CASE place = "direct" -> Put(other, ProjectPath, SectionOf(shape))
    [] place = "container" ->
         [k \in {"projects"} |-> Obj(Put(other, ProjectPath, SectionOf(shape)))]
    [] place = "both" ->
         Put([k \in {"projects"} |-> Obj(Put(other, ProjectPath, OtherSection))],
             ProjectPath, SectionOf(shape))
    [] place = "absentWithContainer" -> [k \in {"projects"} |-> Obj(other)]
    [] place = "absent" -> other
    [] place = "scalar" ->
         Put([k \in {"projects"} |-> Obj(other)], ProjectPath, Str("x"))
ClaudeJson(global, place, shape) ==
  LET g == GlobalPart(global)
      p == ProjectPart(place, shape) IN
  Obj([k \in (DOMAIN g) \cup (DOMAIN p) \cup {"numStartups"} |->
         IF k \in DOMAIN g THEN g[k] ELSE IF k \in DOMAIN p THEN p[k] ELSE Num(7)])

InitFrame ==
  /\ IdleBatch
  /\ eng = [pc |-> "idle"]
  /\ http = [pc |-> "idle"]
  /\ \E global \in GlobalShapes, place \in SectionPlaces, shape \in SectionShapes,
        hostId \in FrameHosts, op \in FrameOperations, id \in {"a", "b"} :
       store = [pc |-> "call", existing |-> ClaudeJson(global, place, shape),
                hostId |-> hostId, op |-> op, mcpId |-> id,
                file |-> ClaudeJson(global, place, shape), message |-> None]

\* The call reads ~/.claude.json, which holds a JSON object, and writes what
\* the operation makes of it, or throws.
FrameCall ==
  /\ store.pc = "call"
  /\ LET result == claudeJsonOperation(store.hostId, store.op, store.mcpId, store.existing,
                                       NewConfig)
     IN  store' = [store EXCEPT !.pc = IF result.throws THEN "rejected" ELSE "written",
                                !.file = IF result.throws THEN @ ELSE result.content,
                                !.message = result.message]
  /\ UNCHANGED <<batchVars, eng, http>>

NextFrame == FrameCall

SpecFrame == InitFrame /\ [][NextFrame]_vars

\* Two JSON values are the same value.
RECURSIVE SameJson(_, _)
SameJson(x, y) ==
  /\ x.t = y.t
  /\ IF x.t = "object"
     THEN /\ DOMAIN x.v = DOMAIN y.v
          /\ \A k \in DOMAIN x.v : SameJson(x.v[k], y.v[k])
     ELSE x.v = y.v

\* The fields of object `after` outside `keys` are those of `before`.
SameOutside(before, after, keys) ==
  /\ isRecord(after)
  /\ (DOMAIN before.v) \ keys = (DOMAIN after.v) \ keys
  /\ \A k \in (DOMAIN before.v) \ keys : SameJson(after.v[k], before.v[k])
\* Inside object `obj[key]`, when it is an object before the call, only
\* `fields` may differ.
SameInside(before, after, key, fields) ==
  isRecord(Get(before, key)) => SameOutside(Get(before, key), Get(after, key), fields)

\* C33: add, update, delete, toggle and writeConfig on a Claude Code host
\* change only the MCP fields of the addressed section: mcpServers (in place
\* or under mcp) for the servers, disabledMcpServers for a project toggle.
\* Every other top-level key of ~/.claude.json, every other project section
\* and every other field of the addressed section keeps its value, and a
\* call that throws leaves the file as it is.
C33_ClaudeJsonFrame ==
  (store.pc \in {"written", "rejected"} /\ "existing" \in DOMAIN store) =>
    LET before == store.existing
        after == store.file
        mcpFields == IF store.op = "toggle" THEN {"disabledMcpServers"} ELSE {"mcpServers", "mcp"}
    IN
    /\ store.pc = "rejected" => SameJson(after, before)
    /\ (store.pc = "written" /\ store.hostId = "claude-code") =>
         /\ SameOutside(before, after, {"mcpServers", "mcp"})
         /\ SameInside(before, after, "mcp", {"mcpServers"})
         /\ \/ SameJson(Get(after, "mcpServers"), Get(before, "mcpServers"))
            \/ SameJson(Get(after, "mcp"), Get(before, "mcp"))
    /\ (store.pc = "written" /\ store.hostId = "claude-code-project") =>
         /\ SameOutside(before, after, {ProjectPath, "projects"})
         /\ SameInside(before, after, "projects", {ProjectPath})
         /\ \/ SameJson(Get(after, ProjectPath), Get(before, ProjectPath))
            \/ SameJson(Get(after, "projects"), Get(before, "projects"))
         /\ isRecord(extractProjectSectionFromClaudeJson(before, ProjectPath)) =>
              /\ SameOutside(extractProjectSectionFromClaudeJson(before, ProjectPath),
                             extractProjectSectionFromClaudeJson(after, ProjectPath), mcpFields)
              /\ SameInside(extractProjectSectionFromClaudeJson(before, ProjectPath),
                            extractProjectSectionFromClaudeJson(after, ProjectPath),
                            "mcp", {"mcpServers"})

\* A project add wrote its server under mcp.mcpServers of the project's
\* section inside the projects container; the other project, the user-level
\* servers and numStartups are as they were.
C33_Witness ==
  /\ store.pc = "written"
  /\ "existing" \in DOMAIN store
  /\ store.hostId = "claude-code-project" /\ store.op = "add" /\ store.mcpId = "a"
  /\ isRecord(Get(Get(Get(Get(store.file, "projects"), ProjectPath), "mcp"), "mcpServers"))
  /\ "a" \in DOMAIN Get(Get(Get(Get(store.file, "projects"), ProjectPath), "mcp"), "mcpServers").v
  /\ SameJson(Get(Get(store.file, "projects"), OtherProjectPath), OtherSection)
  /\ SameJson(Get(store.file, "numStartups"), Num(7))
  /\ SameJson(Get(store.file, "mcpServers"), Obj(Servers({"a"})))
  /\ ~SameJson(store.file, store.existing)

\* A queued task is executing from its first step until it settles.
Executing(c) ==
  IF IsCodex(c) THEN store.calls[c].pc = "write"
  ELSE store.calls[c].pc \in {"backedUp", "write"}
IsPrefix(s, t) == Len(s) <= Len(t) /\ \A k \in DOMAIN s : s[k] = t[k]
ConfigFiles == {"claude", "cursor", "codex"}

\* C36: at most one queued add/update/delete/toggle task is executing at any
\* time for one configuration file, the tasks of one file begin in the order
\* in which they were queued, and calls on the global Claude Code host and on
\* a Claude Code project host are tasks of one queue.
C36_PerFileExclusion ==
  /\ \A file \in ConfigFiles :
       Cardinality({c \in CallsOn(file) : Executing(c)}) <= 1
  /\ \A key \in DOMAIN store.started : IsPrefix(store.started[key], store.enqueued[key])
  /\ \A c, d \in Calls :
       (fileOf(c) = "claude" /\ fileOf(d) = "claude") => queueKey(c) = queueKey(d)

\* A call on the project host was queued behind a call on the global Claude
\* Code host and waits while that one is executing.
C36_Witness ==
  /\ store.enqueued.claude = <<1, 2>>
  /\ store.calls[1].hostId = "claude-code"
  /\ store.calls[2].hostId = "claude-code-project"
  /\ Executing(1)
  /\ store.calls[2].pc = "queued"
  /\ store.started.claude = <<1>>

====
